---- MODULE Spec2Model ----
(***************************************************************************)
(* A state-machine model of the time-series aggregation store              *)
(* (src/src/services/data-store.js, class DataStore) and of the            *)
(* reference-vs-candidate comparer (src/scripts/multi-file-chart.js,       *)
(* StatsComparer).                                                         *)
(*                                                                         *)
(* JavaScript values that the store handles as "times" are modelled as     *)
(* records [k, ms, id]: k is the kind of value (undefined, null, NaN, a    *)
(* primitive number, a Date object), ms the number it denotes and id the   *)
(* identity of a Date object (0 for everything that is not an object).     *)
(* Counter values (y) are integers.                                        *)
(***************************************************************************)
EXTENDS Integers, Sequences, FiniteSets, TLC

VARIABLES
    timePoints,         \* DataStore.timePoints: array of time values
    counters,           \* DataStore.counters: Map key -> array of points (or nested Map)
    numericalCounters,  \* DataStore.numericalCounters: Map key -> {times, values, count, capacity}
    heaps,              \* DataStore.heaps: Map key + '_min' / key + '_max' -> heap
    rateCounters,       \* DataStore.rateCounters: Map key -> {currentCount, lastSecond, lastFrameTime, data}
    userVars,           \* DataStore.vars: Map key -> value
    infiniteMaps,       \* DataStore.infiniteMaps: nested Maps, keyed by the components of a key tuple
    nextId,             \* identity given to the next Date object that is created
    calls,              \* the calls made so far, each with its arguments and what it returned
    clock,              \* the caller's clock: the time supplied last
    reference,          \* StatsComparer: first argument
    candidate,          \* StatsComparer: second argument
    comparison,         \* StatsComparer: the mapping returned
    csv,                \* CsvProfileProcessor: its fields (the store is the DataStore above)
    lines,              \* the lines fed to processLine so far, each with what became of it
    batch               \* processAllFiles: files, i and results, and whether it returned

vars == <<timePoints, counters, numericalCounters, heaps, rateCounters, userVars,
          infiniteMaps, nextId, calls, clock, reference, candidate, comparison,
          csv, lines, batch>>

storeVars == <<timePoints, counters, numericalCounters, heaps, rateCounters, nextId>>
cmpVars == <<reference, candidate, comparison>>
auxVars == <<userVars, infiniteMaps>>
extVars == <<csv, lines, batch>>

(***************************************************************************)
(* Bounds of the model and program constants.                              *)
(***************************************************************************)
\* Number of calls in one behaviour of each specification.
MaxAxisOps == 4
MaxRateOps == 4
MaxFreqOps == 3
MaxNumOps == 3
MaxStoreOps == 2
MaxIncrOps == 3
MaxSetOps == 2
MaxReadOps == 4
MaxMapOps == 3
MaxClearOps == 3
\* Number of calls, reads and writes, in one behaviour of SpecQuery.
MaxQueryOps == 3
\* Number of files in one batch.
MaxFiles == 3
\* Number of lines fed to one CsvProfileProcessor.
MaxLines == 4

\* data-store.js:4 (the reset window, in seconds)
RESET_FREQUENCY_SECONDS_DEFAULT == 1

\* data-store.js:5 sets 100000; the model scales the initial capacity of a
\* NumericSeries down so that a behaviour of MaxNumOps calls reaches a resize.
INITIAL_CAPACITY == 2

\* multi-file-chart.js:11 sets 500; the model scales the sampling period down
\* so that the second accepted row is a sampled one.
SAMPLE_RATE == 2

Keys == {"a", "b"}

\* Times (in ms) the caller supplies: seconds 0, 1 and 2, with gaps below,
\* at and above the 1000 ms reset window.
TimeValues == {0, 100, 300, 500, 900, 1100, 2000, 2100}

\* The times of the specification that interleaves every kind of write.
StoreTimes == {0, 900, 2000}

\* Period of the caller's clock in the NumericSeries specification.
TickMs == 100

Deltas == {1, 2}
Values == {-1, 0, 2}

\* The arguments of the specification that interleaves every kind of write.
StoreDeltas == {1}
StoreValues == {0, 2}

\* StatsComparer: metric names and the numbers a mapping may hold.
Metrics == {"a", "b"}
MetricValues == {0, 10, 15}

-----------------------------------------------------------------------------
(***************************************************************************)
(* JavaScript values and coercions.                                        *)
(***************************************************************************)
Undef == [k |-> "undef", ms |-> 0, id |-> 0]
Null == [k |-> "null", ms |-> 0, id |-> 0]
NaN == [k |-> "nan", ms |-> 0, id |-> 0]
Num(n) == [k |-> "num", ms |-> n, id |-> 0]
DateObj(n, i) == [k |-> "date", ms |-> n, id |-> i]

IsDate(v) == v.k = "date"
IsNullish(v) == v.k \in {"undef", "null"}

\* +v
ToNumber(v) ==
    CASE v.k = "num" -> v
      [] v.k = "date" -> Num(v.ms)
      [] v.k = "null" -> Num(0)
      [] OTHER -> NaN

\* v taken as a condition
Truthy(v) ==
    CASE v.k = "date" -> TRUE
      [] v.k = "num" -> v.ms # 0
      [] OTHER -> FALSE

\* a != b: two objects differ unless they are the same object; a Date against
\* a number is compared through the Date's string form, which is never that number.
LooseNotEqual(a, b) ==
    CASE IsNullish(a) /\ IsNullish(b) -> FALSE
      [] IsNullish(a) \/ IsNullish(b) -> TRUE
      [] a.k = "date" /\ b.k = "date" -> a.id # b.id
      [] a.k = "num" /\ b.k = "num" -> a.ms # b.ms
      [] OTHER -> TRUE

\* a < b on numbers (false when either is NaN)
NumLess(a, b) == a.k = "num" /\ b.k = "num" /\ a.ms < b.ms

\* Math.floor(n / 1000)
FloorSecond(n) == IF n.k = "num" THEN Num(n.ms \div 1000) ELSE NaN

\* A counter value (y) is a number, an integer here.  The one value that is
\* not a number (a string) is denoted by a code outside the numbers written.
TextValue == 1000
IsNumber(v) == v # TextValue

NoLabel == "undefined"
Point(x, y, label) == [x |-> x, y |-> y, label |-> label]

\* The object (store) the methods act on, as one record.
Store(tp, c, nc, h, rc, nid) ==
    [timePoints |-> tp, counters |-> c, numericalCounters |-> nc, heaps |-> h,
     rateCounters |-> rc, nextId |-> nid]

Cur == Store(timePoints, counters, numericalCounters, heaps, rateCounters, nextId)

\* constructor / clearAll: every collection empty
EmptyMap == [x \in {} |-> 0]
EmptyStore == Store(<<>>, EmptyMap, EmptyMap, EmptyMap, EmptyMap, 1)

\* Map.set
MapSet(m, key, v) == (key :> v) @@ m

\* What a call produces: the store after it, the value returned, whether it threw.
Result(s, r) == [st |-> s, ret |-> r, err |-> FALSE]
Throw(s) == [st |-> s, ret |-> Undef, err |-> TRUE]

\* One call, as the log keeps it.
Call(op, key, val, time, label, skip, dedupe, r) ==
    [op |-> op, key |-> key, val |-> val, time |-> time, label |-> label,
     skip |-> skip, dedupe |-> dedupe, ret |-> r.ret, err |-> r.err]

-----------------------------------------------------------------------------
(***************************************************************************)
(* TimeAxis                                                                *)
(***************************************************************************)
getLastTimePoint(s) ==
    IF Len(s.timePoints) = 0 THEN Undef ELSE s.timePoints[Len(s.timePoints)]

getPreLastTimePoint(s) ==
    IF Len(s.timePoints) < 2 THEN Undef ELSE s.timePoints[Len(s.timePoints) - 1]

\* mutant of addTimePoint: the comparison with the tail is dropped
addTimePoint_NoDedup(s, time) ==
    Result([s EXCEPT !.timePoints = Append(@, time)], time)

addTimePoint(s, time) ==
    IF LooseNotEqual(getLastTimePoint(s), time)
    THEN Result([s EXCEPT !.timePoints = Append(@, time)], time)
    ELSE Result(s, time)

-----------------------------------------------------------------------------
(***************************************************************************)
(* CompositeKeyIndex over this.counters.  An entry of the top-level Map is *)
(* an array of points or, after a write under a two-component key, a       *)
(* nested Map from the second component to an array of points.  A location *)
(* is <<key>> or <<key, component>>.                                       *)
(***************************************************************************)
ArrayEntry(pts) == [kind |-> "array", pts |-> pts, sub |-> EmptyMap]
MapEntry(sub) == [kind |-> "map", pts |-> <<>>, sub |-> sub]

\* has: the lookup found a value; err: a step of the walk was not a Map
\* (step.has is not a function).
priv_getInfiniteMapValue(m, loc) ==
    IF loc[1] \notin DOMAIN m
    THEN [err |-> FALSE, has |-> FALSE, val |-> ArrayEntry(<<>>)]
    ELSE IF Len(loc) = 1
    THEN [err |-> FALSE, has |-> TRUE, val |-> m[loc[1]]]
    ELSE IF m[loc[1]].kind = "array"
    THEN [err |-> TRUE, has |-> FALSE, val |-> ArrayEntry(<<>>)]
    ELSE IF loc[2] \notin DOMAIN m[loc[1]].sub
    THEN [err |-> FALSE, has |-> FALSE, val |-> ArrayEntry(<<>>)]
    ELSE [err |-> FALSE, has |-> TRUE, val |-> ArrayEntry(m[loc[1]].sub[loc[2]])]

\* #setInfiniteMapValue(this.counters, ...loc, []): missing levels are created.
priv_setInfiniteMapValue(m, loc) ==
    IF Len(loc) = 1
    THEN [err |-> FALSE, m |-> MapSet(m, loc[1], ArrayEntry(<<>>))]
    ELSE LET m1 == IF loc[1] \in DOMAIN m THEN m ELSE MapSet(m, loc[1], MapEntry(EmptyMap))
         IN IF m1[loc[1]].kind = "array"
            THEN [err |-> TRUE, m |-> m1]
            ELSE [err |-> FALSE,
                  m |-> MapSet(m1, loc[1], MapEntry(MapSet(m1[loc[1]].sub, loc[2], <<>>)))]

\* The array at a location is changed in place (arrays are shared by reference).
PutArr(m, loc, pts) ==
    IF Len(loc) = 1
    THEN MapSet(m, loc[1], ArrayEntry(pts))
    ELSE MapSet(m, loc[1], MapEntry(MapSet(m[loc[1]].sub, loc[2], pts)))

LastOf(seq) == seq[Len(seq)]

-----------------------------------------------------------------------------
(***************************************************************************)
(* LabeledSeries                                                           *)
(***************************************************************************)
\* mutant of #setNewCounterValue: the duplicate carries the new value
priv_setNewCounterValue_DupNew(s, loc, value, label, time, skipDuplication, memorySaving) ==
    LET useTime == Truthy(time) /\ NumLess(Num(0), ToNumber(time))
        dateArg == IF IsDate(time) THEN time ELSE DateObj(ToNumber(time).ms, s.nextId)
        s0 == IF useTime /\ ~IsDate(time) THEN [s EXCEPT !.nextId = @ + 1] ELSE s
        s1 == IF useTime THEN addTimePoint(s0, dateArg).st ELSE s
        xRef == IF useTime THEN dateArg ELSE getLastTimePoint(s)
        entry == priv_getInfiniteMapValue(s1.counters, loc).val
        old == entry.pts
        newObj == Point(xRef, value, label)
        prevValue == IF Len(old) = 0 THEN 0 ELSE LastOf(old).y
    IN  IF memorySaving /\ prevValue = value /\ skipDuplication
        THEN Result(s1, IF Len(old) = 0 THEN Undef ELSE LastOf(old))
        ELSE IF entry.kind = "map"
        THEN Throw(s1)      \* a Map has no push
        ELSE LET pts1 == IF ~skipDuplication
                         THEN Append(old, Point(xRef, value, label))
                         ELSE old
             IN Result([s1 EXCEPT !.counters = PutArr(@, loc, Append(pts1, newObj))],
                       newObj)

\* mutant of #setNewCounterValue: the duplicate takes the place of the last point
priv_setNewCounterValue_Overwrite(s, loc, value, label, time, skipDuplication, memorySaving) ==
    LET useTime == Truthy(time) /\ NumLess(Num(0), ToNumber(time))
        dateArg == IF IsDate(time) THEN time ELSE DateObj(ToNumber(time).ms, s.nextId)
        s0 == IF useTime /\ ~IsDate(time) THEN [s EXCEPT !.nextId = @ + 1] ELSE s
        s1 == IF useTime THEN addTimePoint(s0, dateArg).st ELSE s
        xRef == IF useTime THEN dateArg ELSE getLastTimePoint(s)
        entry == priv_getInfiniteMapValue(s1.counters, loc).val
        old == entry.pts
        newObj == Point(xRef, value, label)
        prevValue == IF Len(old) = 0 THEN 0 ELSE LastOf(old).y
    IN  IF memorySaving /\ prevValue = value /\ skipDuplication
        THEN Result(s1, IF Len(old) = 0 THEN Undef ELSE LastOf(old))
        ELSE IF entry.kind = "map"
        THEN Throw(s1)      \* a Map has no push
        ELSE LET pts1 == IF ~skipDuplication
                         THEN IF Len(old) = 0
                              THEN Append(old, Point(xRef, prevValue, label))
                              ELSE [old EXCEPT ![Len(old)] = Point(xRef, prevValue, label)]
                         ELSE old
             IN Result([s1 EXCEPT !.counters = PutArr(@, loc, Append(pts1, newObj))],
                       newObj)

\* #setNewCounterValue(oldCounter, value, label, time, skipDuplication, memorySaving);
\* oldCounter is the object stored at loc.
priv_setNewCounterValue(s, loc, value, label, time, skipDuplication, memorySaving) ==
    LET useTime == Truthy(time) /\ NumLess(Num(0), ToNumber(time))
        dateArg == IF IsDate(time) THEN time ELSE DateObj(ToNumber(time).ms, s.nextId)
        s0 == IF useTime /\ ~IsDate(time) THEN [s EXCEPT !.nextId = @ + 1] ELSE s
        s1 == IF useTime THEN addTimePoint(s0, dateArg).st ELSE s
        xRef == IF useTime THEN dateArg ELSE getLastTimePoint(s)
        entry == priv_getInfiniteMapValue(s1.counters, loc).val
        old == entry.pts
        newObj == Point(xRef, value, label)
        prevValue == IF Len(old) = 0 THEN 0 ELSE LastOf(old).y
    IN  IF memorySaving /\ prevValue = value /\ skipDuplication
        THEN Result(s1, IF Len(old) = 0 THEN Undef ELSE LastOf(old))
        ELSE IF entry.kind = "map"
        THEN Throw(s1)      \* a Map has no push
        ELSE LET pts1 == IF ~skipDuplication
                         THEN Append(old, Point(xRef, prevValue, label))
                         ELSE old
             IN Result([s1 EXCEPT !.counters = PutArr(@, loc, Append(pts1, newObj))],
                       newObj)

setNewFrequencyCounterValue(s, loc, value, time, skipDuplication) ==
    LET g == priv_getInfiniteMapValue(s.counters, loc)
    IN  IF g.err THEN Throw(s)
        ELSE LET c1 == IF g.has THEN [err |-> FALSE, m |-> s.counters]
                       ELSE priv_setInfiniteMapValue(s.counters, loc)
                 s1 == [s EXCEPT !.counters = c1.m]
             IN IF c1.err THEN Throw(s1)
                ELSE priv_setNewCounterValue(s1, loc, value, NoLabel, time,
                                             skipDuplication, FALSE)

-----------------------------------------------------------------------------
(***************************************************************************)
(* FrequencyCounter                                                        *)
(***************************************************************************)
resetFrequencySeconds == RESET_FREQUENCY_SECONDS_DEFAULT

NumSub(a, b) == IF a.k = "num" /\ b.k = "num" THEN Num(a.ms - b.ms) ELSE NaN

\* mutant of resetFrequencyCounter: the zero point at the old last timestamp
\* is not written
resetFrequencyCounter_SkipOld(s, key, arg) ==
    LET timeNow == IF IsDate(arg) THEN arg ELSE getLastTimePoint(s)
        loc == IF IsDate(arg) THEN <<key>> ELSE <<key, arg>>
        g == priv_getInfiniteMapValue(s.counters, loc)
    IN  IF g.err THEN Throw(s)
        ELSE setNewFrequencyCounterValue(s, loc, 0, timeNow, FALSE)

\* resetFrequencyCounter(key, arg): arg is taken as the time only when it is a
\* Date; any other last argument stays among the keys.
resetFrequencyCounter(s, key, arg) ==
    LET timeNow == IF IsDate(arg) THEN arg ELSE getLastTimePoint(s)
        loc == IF IsDate(arg) THEN <<key>> ELSE <<key, arg>>
        g == priv_getInfiniteMapValue(s.counters, loc)
    IN  IF g.err THEN Throw(s)
        ELSE LET r1 == IF g.has /\ g.val.kind = "array" /\ Len(g.val.pts) > 0
                       THEN setNewFrequencyCounterValue(s, loc, 0, LastOf(g.val.pts).x, TRUE)
                       ELSE Result(s, Undef)
             IN IF r1.err THEN r1
                ELSE setNewFrequencyCounterValue(r1.st, loc, 0, timeNow, FALSE)

\* mutant of incrementCounterLast: the sum is appended as a new point
incrementCounterLast_Append(s, key, incrementer) ==
    IF key \notin DOMAIN s.counters THEN Throw(s)
    ELSE LET e == s.counters[key]
         IN IF e.kind = "map" \/ Len(e.pts) = 0 THEN Throw(s)
            ELSE LET y1 == LastOf(e.pts).y + incrementer
                     pts1 == Append(e.pts, [LastOf(e.pts) EXCEPT !.y = y1])
                 IN Result([s EXCEPT !.counters = PutArr(@, <<key>>, pts1)],
                           y1 + incrementer)

\* incrementCounterLast(key, incrementer)
incrementCounterLast(s, key, incrementer) ==
    IF key \notin DOMAIN s.counters THEN Throw(s)
    ELSE LET e == s.counters[key]
         IN IF e.kind = "map" \/ Len(e.pts) = 0 THEN Throw(s)
            ELSE LET y1 == LastOf(e.pts).y + incrementer
                     pts1 == [e.pts EXCEPT ![Len(e.pts)].y = y1]
                 IN Result([s EXCEPT !.counters = PutArr(@, <<key>>, pts1)],
                           y1 + incrementer)

\* incrementFrequencyCounter(key, [time], incrementer): time is a Date or is
\* not given (Null).
incrementFrequencyCounter(s, key, time, incrementer) ==
    LET timeNow == IF Truthy(time) THEN time ELSE getLastTimePoint(s)
        g == priv_getInfiniteMapValue(s.counters, <<key>>)
    IN  IF g.has /\ (g.val.kind = "map" \/ Len(g.val.pts) = 0)
        THEN Throw(s)       \* counter[counter.length - 1] is undefined
        ELSE LET needReset ==
                     \/ ~g.has
                     \/ NumLess(Num(resetFrequencySeconds * 1000),
                                NumSub(ToNumber(timeNow), ToNumber(LastOf(g.val.pts).x)))
                 r1 == IF needReset
                       THEN resetFrequencyCounter(s, key, timeNow)
                       ELSE Result(s, Undef)
             IN IF r1.err THEN r1
                ELSE incrementCounterLast(r1.st, key, incrementer)

-----------------------------------------------------------------------------
(***************************************************************************)
(* NumericSeries: two Float64Arrays of `capacity` slots, of which the      *)
(* first `count` are in use (slot i of the code is index i + 1 here), and  *)
(* two heaps per key.  A Float64Array starts filled with 0 and ignores a   *)
(* write outside its bounds.                                               *)
(***************************************************************************)
Float64Array(n, zero) == [i \in 1..n |-> zero]

\* newArray.set(oldArray): the old contents at the same indices
TypedArraySet(new, old) == [i \in DOMAIN new |-> IF i \in DOMAIN old THEN old[i] ELSE new[i]]

\* array[index] = v, index counted from 0
TypedArrayStore(arr, index, v) ==
    IF index + 1 \in DOMAIN arr THEN [arr EXCEPT ![index + 1] = v] ELSE arr

\* heap-js Heap: the items pushed, and the order of its comparator
\* ("min": (a, b) => a - b, "max": (a, b) => b - a).
Heap(cmp) == [cmp |-> cmp, items |-> <<>>]
HeapPush(h, v) == [h EXCEPT !.items = Append(@, v)]
HeapPeek(h) ==
    IF Len(h.items) = 0 THEN Undef
    ELSE LET vals == {h.items[i] : i \in DOMAIN h.items}
         IN IF h.cmp = "min"
            THEN Num(CHOOSE v \in vals : \A w \in vals : v <= w)
            ELSE Num(CHOOSE v \in vals : \A w \in vals : v >= w)

\* key + '_min', key + '_max'
HeapName(key, suffix) == <<key, suffix>>

\* mutant of Resize: the old contents are not copied into the new arrays
Resize_NoCopy(c) ==
    [c EXCEPT !.times = Float64Array(c.capacity * 2, Num(0)),
              !.values = Float64Array(c.capacity * 2, 0),
              !.capacity = c.capacity * 2]

\* data-store.js:156-165, the "Resize if needed" block
Resize(c) ==
    [c EXCEPT !.times = TypedArraySet(Float64Array(c.capacity * 2, Num(0)), c.times),
              !.values = TypedArraySet(Float64Array(c.capacity * 2, 0), c.values),
              !.capacity = c.capacity * 2]

\* mutant of HeapsPush: the max heap is given the comparator of the min heap
HeapsPush_MaxAsMin(h, key, value) ==
    MapSet(MapSet(h, HeapName(key, "_min"), HeapPush(h[HeapName(key, "_min")], value)),
           HeapName(key, "_max"),
           [HeapPush(h[HeapName(key, "_max")], value) EXCEPT !.cmp = "min"])

\* data-store.js:181-183, "Update heaps"
HeapsPush(h, key, value) ==
    MapSet(MapSet(h, HeapName(key, "_min"), HeapPush(h[HeapName(key, "_min")], value)),
           HeapName(key, "_max"), HeapPush(h[HeapName(key, "_max")], value))

\* mutant of #setOptimizedCounterValue: the check for deduplication is left out
priv_setOptimizedCounterValue_NoDedupe(s, key, value, time, deduplicateData) ==
    LET s1 == IF key \in DOMAIN s.numericalCounters THEN s
              ELSE [s EXCEPT
                      !.numericalCounters =
                          MapSet(@, key, [times |-> Float64Array(INITIAL_CAPACITY, Num(0)),
                                          values |-> Float64Array(INITIAL_CAPACITY, 0),
                                          count |-> 0,
                                          capacity |-> INITIAL_CAPACITY]),
                      !.heaps = MapSet(MapSet(@, HeapName(key, "_min"), Heap("min")),
                                       HeapName(key, "_max"), Heap("max"))]
        c0 == s1.numericalCounters[key]
        c1 == IF c0.count >= c0.capacity THEN Resize(c0) ELSE c0
        s2 == [s1 EXCEPT !.numericalCounters = MapSet(@, key, c1)]
        timeValue == IF time.k # "null" THEN ToNumber(time) ELSE getLastTimePoint(s)
    IN  IF FALSE
        THEN Result(s2, Point(timeValue, value, NoLabel))
        ELSE LET c2 == [c1 EXCEPT
                          !.times = TypedArrayStore(@, c1.count, ToNumber(timeValue)),
                          !.values = TypedArrayStore(@, c1.count, value),
                          !.count = @ + 1]
             IN Result([s2 EXCEPT !.numericalCounters = MapSet(@, key, c2),
                                  !.heaps = HeapsPush(@, key, value)],
                       Point(timeValue, value, NoLabel))

\* mutant of #setOptimizedCounterValue: the value is compared with the first
\* value of the series, not the last
priv_setOptimizedCounterValue_CompareFirst(s, key, value, time, deduplicateData) ==
    LET s1 == IF key \in DOMAIN s.numericalCounters THEN s
              ELSE [s EXCEPT
                      !.numericalCounters =
                          MapSet(@, key, [times |-> Float64Array(INITIAL_CAPACITY, Num(0)),
                                          values |-> Float64Array(INITIAL_CAPACITY, 0),
                                          count |-> 0,
                                          capacity |-> INITIAL_CAPACITY]),
                      !.heaps = MapSet(MapSet(@, HeapName(key, "_min"), Heap("min")),
                                       HeapName(key, "_max"), Heap("max"))]
        c0 == s1.numericalCounters[key]
        c1 == IF c0.count >= c0.capacity THEN Resize(c0) ELSE c0
        s2 == [s1 EXCEPT !.numericalCounters = MapSet(@, key, c1)]
        timeValue == IF time.k # "null" THEN ToNumber(time) ELSE getLastTimePoint(s)
    IN  IF deduplicateData /\ c1.count > 0 /\ c1.values[1] = value
        THEN Result(s2, Point(timeValue, value, NoLabel))
        ELSE LET c2 == [c1 EXCEPT
                          !.times = TypedArrayStore(@, c1.count, ToNumber(timeValue)),
                          !.values = TypedArrayStore(@, c1.count, value),
                          !.count = @ + 1]
             IN Result([s2 EXCEPT !.numericalCounters = MapSet(@, key, c2),
                                  !.heaps = HeapsPush(@, key, value)],
                       Point(timeValue, value, NoLabel))

\* #setOptimizedCounterValue(key, value, time, deduplicateData)
priv_setOptimizedCounterValue(s, key, value, time, deduplicateData) ==
    LET s1 == IF key \in DOMAIN s.numericalCounters THEN s
              ELSE [s EXCEPT
                      !.numericalCounters =
                          MapSet(@, key, [times |-> Float64Array(INITIAL_CAPACITY, Num(0)),
                                          values |-> Float64Array(INITIAL_CAPACITY, 0),
                                          count |-> 0,
                                          capacity |-> INITIAL_CAPACITY]),
                      !.heaps = MapSet(MapSet(@, HeapName(key, "_min"), Heap("min")),
                                       HeapName(key, "_max"), Heap("max"))]
        c0 == s1.numericalCounters[key]
        c1 == IF c0.count >= c0.capacity THEN Resize(c0) ELSE c0
        s2 == [s1 EXCEPT !.numericalCounters = MapSet(@, key, c1)]
        timeValue == IF time.k # "null" THEN ToNumber(time) ELSE getLastTimePoint(s)
    IN  IF deduplicateData /\ c1.count > 0 /\ c1.values[c1.count] = value
        THEN Result(s2, Point(timeValue, value, NoLabel))
        ELSE LET c2 == [c1 EXCEPT
                          !.times = TypedArrayStore(@, c1.count, ToNumber(timeValue)),
                          !.values = TypedArrayStore(@, c1.count, value),
                          !.count = @ + 1]
             IN Result([s2 EXCEPT !.numericalCounters = MapSet(@, key, c2),
                                  !.heaps = HeapsPush(@, key, value)],
                       Point(timeValue, value, NoLabel))

\* mutant of setNewCounterValue: the route is chosen by the label alone
setNewCounterValue_ByLabel(s, key, value, label, time, skipDuplication, deduplicateData) ==
    IF label = NoLabel
    THEN priv_setOptimizedCounterValue(s, key, value, time, deduplicateData)
    ELSE LET s1 == IF key \in DOMAIN s.counters THEN s
                   ELSE [s EXCEPT !.counters = MapSet(@, key, ArrayEntry(<<>>))]
         IN priv_setNewCounterValue(s1, <<key>>, value, label, time, skipDuplication, FALSE)

\* mutant of setNewCounterValue: the typed-array entry and the heaps of the
\* key are created before the route is chosen
setNewCounterValue_EagerCreate(s, key, value, label, time, skipDuplication, deduplicateData) ==
    LET s0 == IF key \in DOMAIN s.numericalCounters THEN s
              ELSE [s EXCEPT
                      !.numericalCounters =
                          MapSet(@, key, [times |-> Float64Array(INITIAL_CAPACITY, Num(0)),
                                          values |-> Float64Array(INITIAL_CAPACITY, 0),
                                          count |-> 0,
                                          capacity |-> INITIAL_CAPACITY]),
                      !.heaps = MapSet(MapSet(@, HeapName(key, "_min"), Heap("min")),
                                       HeapName(key, "_max"), Heap("max"))]
    IN  IF IsNumber(value) /\ label = NoLabel
        THEN priv_setOptimizedCounterValue(s0, key, value, time, deduplicateData)
        ELSE LET s1 == IF key \in DOMAIN s0.counters THEN s0
                       ELSE [s0 EXCEPT !.counters = MapSet(@, key, ArrayEntry(<<>>))]
             IN priv_setNewCounterValue(s1, <<key>>, value, label, time, skipDuplication, FALSE)

\* setNewCounterValue(key, value, label, time = null, skipDuplication = true,
\* deduplicateData = false)
setNewCounterValue(s, key, value, label, time, skipDuplication, deduplicateData) ==
    IF IsNumber(value) /\ label = NoLabel
    THEN priv_setOptimizedCounterValue(s, key, value, time, deduplicateData)
    ELSE LET s1 == IF key \in DOMAIN s.counters THEN s
                   ELSE [s EXCEPT !.counters = MapSet(@, key, ArrayEntry(<<>>))]
         IN priv_setNewCounterValue(s1, <<key>>, value, label, time, skipDuplication, FALSE)

\* The value incrementCounter hands to setNewCounterValue.
incrementCounterValue(s, key, incrementer) ==
    LET has == key \in DOMAIN s.counters /\ s.counters[key].kind = "array"
                 /\ Len(s.counters[key].pts) > 0
    IN (IF has THEN LastOf(s.counters[key].pts).y ELSE 0) + incrementer

\* incrementCounter(key, incrementer, time = null)
incrementCounter(s, key, incrementer, time) ==
    setNewCounterValue(s, key, incrementCounterValue(s, key, incrementer),
                       NoLabel, time, TRUE, FALSE)

-----------------------------------------------------------------------------
(***************************************************************************)
(* RateCounter                                                             *)
(***************************************************************************)
NewRateCounter == [currentCount |-> 0, lastSecond |-> -1, lastFrameTime |-> Num(0), data |-> <<>>]

\* mutant of RateBucket: the committed point carries the crossing time
RateBucket_CrossingTime(c, incrementer, timeValue) ==
    LET currentSecond == FloorSecond(timeValue)
    IN  IF NumLess(Num(c.lastSecond), currentSecond)
        THEN [c EXCEPT !.data = IF c.lastSecond >= 0
                                THEN Append(@, Point(timeValue, c.currentCount, NoLabel))
                                ELSE @,
                       !.currentCount = incrementer,
                       !.lastSecond = currentSecond.ms,
                       !.lastFrameTime = timeValue]
        ELSE [c EXCEPT !.currentCount = @ + incrementer,
                       !.lastFrameTime = timeValue]

\* mutant of RateBucket: a point is committed at the first increment too
RateBucket_CommitFirst(c, incrementer, timeValue) ==
    LET currentSecond == FloorSecond(timeValue)
    IN  IF NumLess(Num(c.lastSecond), currentSecond)
        THEN [c EXCEPT !.data = Append(@, Point(c.lastFrameTime, c.currentCount, NoLabel)),
                       !.currentCount = incrementer,
                       !.lastSecond = currentSecond.ms,
                       !.lastFrameTime = timeValue]
        ELSE [c EXCEPT !.currentCount = @ + incrementer,
                       !.lastFrameTime = timeValue]

\* mutant of RateBucket: a new second resets the count to 0 and does not
\* count the increment that opened it
RateBucket_ResetToZero(c, incrementer, timeValue) ==
    LET currentSecond == FloorSecond(timeValue)
    IN  IF NumLess(Num(c.lastSecond), currentSecond)
        THEN [c EXCEPT !.data = IF c.lastSecond >= 0
                                THEN Append(@, Point(c.lastFrameTime, c.currentCount, NoLabel))
                                ELSE @,
                       !.currentCount = 0,
                       !.lastSecond = currentSecond.ms,
                       !.lastFrameTime = timeValue]
        ELSE [c EXCEPT !.currentCount = @ + incrementer,
                       !.lastFrameTime = timeValue]

\* data-store.js:367-385: the bucketing of one increment at timeValue
RateBucket(c, incrementer, timeValue) ==
    LET currentSecond == FloorSecond(timeValue)
    IN  IF NumLess(Num(c.lastSecond), currentSecond)
        THEN [c EXCEPT !.data = IF c.lastSecond >= 0
                                THEN Append(@, Point(c.lastFrameTime, c.currentCount, NoLabel))
                                ELSE @,
                       !.currentCount = incrementer,
                       !.lastSecond = currentSecond.ms,
                       !.lastFrameTime = timeValue]
        ELSE [c EXCEPT !.currentCount = @ + incrementer,
                       !.lastFrameTime = timeValue]

\* incrementRateCounter(key, incrementer, time = null)
incrementRateCounter(s, key, incrementer, time) ==
    LET s1 == IF key \in DOMAIN s.rateCounters THEN s
              ELSE [s EXCEPT !.rateCounters = MapSet(@, key, NewRateCounter)]
        r == addTimePoint(s1, time)
        c == RateBucket(s1.rateCounters[key], incrementer, ToNumber(r.ret))
    IN  Result([r.st EXCEPT !.rateCounters = MapSet(@, key, c)], c.currentCount)

getRateCounterData(s, key) ==
    IF key \notin DOMAIN s.rateCounters THEN <<>>
    ELSE LET c == s.rateCounters[key]
         IN IF c.currentCount > 0 /\ c.lastSecond >= 0
            THEN Append(c.data, Point(ToNumber(getLastTimePoint(s)), c.currentCount, NoLabel))
            ELSE c.data

\* mutant of getRateCounterDataCall: the point of the bucket in progress is
\* pushed on counter.data itself
getRateCounterDataCall_Alias(s, key) ==
    IF key \notin DOMAIN s.rateCounters THEN Result(s, <<>>)
    ELSE Result([s EXCEPT !.rateCounters =
                            MapSet(@, key, [s.rateCounters[key] EXCEPT
                                               !.data = getRateCounterData(s, key)])],
                getRateCounterData(s, key))

\* A call of getRateCounterData(key), with the store it leaves: the array
\* returned is a copy ([...counter.data]), so the push of the point of the
\* bucket in progress does not reach the store.
getRateCounterDataCall(s, key) == Result(s, getRateCounterData(s, key))

-----------------------------------------------------------------------------
(***************************************************************************)
(* The auxiliary variables, the composite-key index this.infiniteMaps and  *)
(* clearAll.  A level of the index is a Map from a key component to a node:*)
(* a nested Map or a value.  A key tuple is a sequence of components; the  *)
(* arguments keyVal of the code are the tuple followed by the value.       *)
(***************************************************************************)
\* setVar(key, value), getVar(key)
setVar(m, key, value) == MapSet(m, key, value)
getVar(m, key) == IF key \in DOMAIN m THEN Num(m[key]) ELSE Undef

MapNode(sub) == [kind |-> "map", v |-> 0, sub |-> sub]
ValueNode(v) == [kind |-> "val", v |-> v, sub |-> EmptyMap]

\* The loop and the final step.set of #setInfiniteMapValue, from the level
\* `step`: err when a step of the walk is a value, which has no has / set.
RECURSIVE WalkSet(_, _, _)
WalkSet(step, keys, value) ==
    IF Len(keys) = 1
    THEN [err |-> FALSE, m |-> MapSet(step, keys[1], ValueNode(value))]
    ELSE LET step1 == IF keys[1] \in DOMAIN step THEN step
                      ELSE MapSet(step, keys[1], MapNode(EmptyMap))
             child == step1[keys[1]]
         IN IF child.kind = "val" THEN [err |-> TRUE, m |-> step1]
            ELSE LET r == WalkSet(child.sub, Tail(keys), value)
                 IN [err |-> r.err, m |-> MapSet(step1, keys[1], MapNode(r.m))]

\* The same walk, but every intermediate level is set to a new Map.
RECURSIVE WalkSet_Fresh(_, _, _)
WalkSet_Fresh(step, keys, value) ==
    IF Len(keys) = 1
    THEN [err |-> FALSE, m |-> MapSet(step, keys[1], ValueNode(value))]
    ELSE LET r == WalkSet_Fresh(EmptyMap, Tail(keys), value)
         IN [err |-> r.err, m |-> MapSet(step, keys[1], MapNode(r.m))]

\* mutant of setInfiniteMapValue: the test on the number of components is left out
setInfiniteMapValue_NoCheck(m, keys, value) ==
    IF Len(keys) < 1 THEN [err |-> FALSE, m |-> MapSet(m, "undefined", ValueNode(value))]
    ELSE WalkSet(m, keys, value)

\* mutant of setInfiniteMapValue: an intermediate level is replaced by a new
\* Map whether it exists or not
setInfiniteMapValue_Fresh(m, keys, value) ==
    IF Len(keys) < 1 THEN [err |-> TRUE, m |-> m]
    ELSE WalkSet_Fresh(m, keys, value)

\* setInfiniteMapValue(...keys, value): keyVal.length < 2 is Len(keys) < 1
setInfiniteMapValue(m, keys, value) ==
    IF Len(keys) < 1 THEN [err |-> TRUE, m |-> m]
    ELSE WalkSet(m, keys, value)

\* getInfiniteMapValue(...keys): has is false when a component is missing
\* (the code returns undefined); err when a step of the walk is a value.
RECURSIVE getInfiniteMapValue(_, _)
getInfiniteMapValue(m, keys) ==
    IF Len(keys) = 0 THEN [err |-> FALSE, has |-> TRUE, node |-> MapNode(m)]
    ELSE IF keys[1] \notin DOMAIN m
    THEN [err |-> FALSE, has |-> FALSE, node |-> MapNode(EmptyMap)]
    ELSE IF Len(keys) = 1 THEN [err |-> FALSE, has |-> TRUE, node |-> m[keys[1]]]
    ELSE IF m[keys[1]].kind = "val"
    THEN [err |-> TRUE, has |-> FALSE, node |-> MapNode(EmptyMap)]
    ELSE getInfiniteMapValue(m[keys[1]].sub, Tail(keys))

\* mutant of clearAll: this.heaps is not replaced
clearAll_KeepHeaps(s) ==
    [s EXCEPT !.timePoints = <<>>, !.counters = EmptyMap, !.numericalCounters = EmptyMap,
              !.rateCounters = EmptyMap]

\* clearAll(), on the collections of the series (this.vars and
\* this.infiniteMaps are emptied by the action ClearAll)
clearAll(s) ==
    [s EXCEPT !.timePoints = <<>>, !.counters = EmptyMap, !.numericalCounters = EmptyMap,
              !.heaps = EmptyMap, !.rateCounters = EmptyMap]

-----------------------------------------------------------------------------
(***************************************************************************)
(* Read queries.  getCounterData answers with an entry: an array of points *)
(* or, for a key that holds a nested Map, that Map.                        *)
(***************************************************************************)
NumericPoints(c) == [i \in 1..c.count |-> Point(c.times[i], c.values[i], NoLabel)]

\* mutant of getCounterData: the NumericSeries is looked up before the RateCounter
getCounterData_NumericFirst(s, key) ==
    IF key \in DOMAIN s.numericalCounters
    THEN ArrayEntry(NumericPoints(s.numericalCounters[key]))
    ELSE IF key \in DOMAIN s.rateCounters THEN ArrayEntry(getRateCounterData(s, key))
    ELSE IF key \in DOMAIN s.counters THEN s.counters[key]
    ELSE ArrayEntry(<<>>)

\* mutant of getCounterData: the LabeledSeries is served before the
\* NumericSeries
getCounterData_LabeledFirst(s, key) ==
    IF key \in DOMAIN s.rateCounters THEN ArrayEntry(getRateCounterData(s, key))
    ELSE IF key \in DOMAIN s.counters THEN s.counters[key]
    ELSE IF key \in DOMAIN s.numericalCounters
    THEN ArrayEntry(NumericPoints(s.numericalCounters[key]))
    ELSE ArrayEntry(<<>>)

\* getCounterData(key)
getCounterData(s, key) ==
    IF key \in DOMAIN s.rateCounters THEN ArrayEntry(getRateCounterData(s, key))
    ELSE IF key \in DOMAIN s.numericalCounters
    THEN ArrayEntry(NumericPoints(s.numericalCounters[key]))
    ELSE IF key \in DOMAIN s.counters THEN s.counters[key]
    ELSE ArrayEntry(<<>>)

\* isRateCounter(key)
isRateCounter(s, key) == key \in DOMAIN s.rateCounters

\* p => p.y over an array of points
MapY(pts) == [i \in 1..Len(pts) |-> pts[i].y]

\* getCounterYValues(key): err when this.counters holds a nested Map under
\* the key (a Map has no method map).
getCounterYValues(s, key) ==
    IF key \in DOMAIN s.rateCounters
    THEN [err |-> FALSE, vals |-> MapY(getRateCounterData(s, key))]
    ELSE IF key \in DOMAIN s.numericalCounters
    THEN [err |-> FALSE,
          vals |-> [i \in 1..s.numericalCounters[key].count |->
                       s.numericalCounters[key].values[i]]]
    ELSE IF key \notin DOMAIN s.counters THEN [err |-> FALSE, vals |-> <<>>]
    ELSE IF s.counters[key].kind = "map" THEN [err |-> TRUE, vals |-> <<>>]
    ELSE [err |-> FALSE, vals |-> MapY(s.counters[key].pts)]

\* mutant of getCounterDataExtended: the comparison with maxTime is not strict
getCounterDataExtended_NotStrict(s, key, maxTime) ==
    LET data == getCounterData(s, key)
    IN  IF data.kind = "map" THEN [err |-> TRUE, pts |-> <<>>]
        ELSE IF Len(data.pts) = 0 THEN [err |-> FALSE, pts |-> data.pts]
        ELSE IF ~NumLess(ToNumber(maxTime), ToNumber(LastOf(data.pts).x))
        THEN [err |-> FALSE,
              pts |-> Append(data.pts, Point(maxTime, LastOf(data.pts).y, NoLabel))]
        ELSE [err |-> FALSE, pts |-> data.pts]

\* getCounterDataExtended(key, maxTime)
getCounterDataExtended(s, key, maxTime) ==
    LET data == getCounterData(s, key)
    IN  IF data.kind = "map" THEN [err |-> TRUE, pts |-> <<>>]
        ELSE IF Len(data.pts) = 0 THEN [err |-> FALSE, pts |-> data.pts]
        ELSE IF NumLess(ToNumber(LastOf(data.pts).x), ToNumber(maxTime))
        THEN [err |-> FALSE,
              pts |-> Append(data.pts, Point(maxTime, LastOf(data.pts).y, NoLabel))]
        ELSE [err |-> FALSE, pts |-> data.pts]

getMinValue(s, key) ==
    IF HeapName(key, "_min") \in DOMAIN s.heaps
    THEN HeapPeek(s.heaps[HeapName(key, "_min")]) ELSE Undef

getMaxValue(s, key) ==
    IF HeapName(key, "_max") \in DOMAIN s.heaps
    THEN HeapPeek(s.heaps[HeapName(key, "_max")]) ELSE Undef

\* sum of values[0 .. n-1], as the loop of getAverageValue computes it
RECURSIVE SumValues(_, _)
SumValues(values, n) == IF n = 0 THEN 0 ELSE SumValues(values, n - 1) + values[n]

\* A quotient n / d of two numbers, kept exact.
Ratio(n, d) == [k |-> "ratio", n |-> n, d |-> d]

\* mutant of getAverageValue: the sum is divided by the capacity of the buffer
getAverageValue_ByCapacity(s, key) ==
    IF key \notin DOMAIN s.numericalCounters THEN Undef
    ELSE LET c == s.numericalCounters[key]
         IN Ratio(SumValues(c.values, c.count), c.capacity)

getAverageValue(s, key) ==
    IF key \notin DOMAIN s.numericalCounters THEN Undef
    ELSE LET c == s.numericalCounters[key]
         IN Ratio(SumValues(c.values, c.count), c.count)

-----------------------------------------------------------------------------
(***************************************************************************)
(* VariationComparer                                                       *)
(***************************************************************************)
\* StatsComparer(reference, candidate): candidate[key] is undefined for an
\* absent key, and !candValue holds for undefined and for 0.  (The record the
\* code returns also carries the function numToStringSymbol.)
StatsComparer(ref, cand) ==
    [k \in DOMAIN ref |->
        IF k \notin DOMAIN cand \/ cand[k] = 0 THEN Null
        ELSE [variation |-> cand[k] - ref[k],
              variationPerc |-> Ratio((cand[k] - ref[k]) * 100, ref[k])]]

\* Every flat mapping from some of the metric names to numbers.
Mappings == UNION {[D -> MetricValues] : D \in SUBSET Metrics}

-----------------------------------------------------------------------------
(***************************************************************************)
(* The read queries as calls: the value returned and the store the call    *)
(* leaves.                                                                 *)
(***************************************************************************)
\* getCounterLastValue(key): data[data.length - 1]
getCounterLastValue(s, key) ==
    LET data == getCounterData(s, key)
    IN  IF data.kind = "map" \/ Len(data.pts) = 0 THEN Undef ELSE LastOf(data.pts)

\* mutant of getCounterDataExtendedCall: the point at maxTime is pushed on the
\* array getCounterData returned, which for a LabeledSeries is the stored one
getCounterDataExtendedCall_NoCopy(s, key, maxTime) ==
    LET e == getCounterDataExtended(s, key, maxTime)
    IN  IF e.err THEN Throw(s)
        ELSE IF /\ key \notin DOMAIN s.rateCounters
                /\ key \notin DOMAIN s.numericalCounters
                /\ key \in DOMAIN s.counters
             THEN Result([s EXCEPT !.counters = MapSet(@, key, ArrayEntry(e.pts))], e.pts)
             ELSE Result(s, e.pts)

\* A call of getCounterDataExtended(key, maxTime): the point at maxTime is
\* pushed on a copy ([...data]); on a nested Map the reads of data.length and
\* data[data.length - 1].y fail.
getCounterDataExtendedCall(s, key, maxTime) ==
    LET e == getCounterDataExtended(s, key, maxTime)
    IN  IF e.err THEN Throw(s) ELSE Result(s, e.pts)

\* A call of getCounterYValues(key)
getCounterYValuesCall(s, key) ==
    LET v == getCounterYValues(s, key)
    IN  IF v.err THEN Throw(s) ELSE Result(s, v.vals)

\* The read queries of the store, by name.
ReadOps ==
    {"getCounterData", "getCounterDataExtended", "getCounterYValues", "getCounterLastValue",
     "getMinValue", "getMaxValue", "getAverageValue", "isRateCounter",
     "getLastTimePoint", "getPreLastTimePoint"}

ReadCall(s, op, key, maxTime) ==
    CASE op = "getCounterData" -> Result(s, getCounterData(s, key))
      [] op = "getCounterDataExtended" -> getCounterDataExtendedCall(s, key, maxTime)
      [] op = "getCounterYValues" -> getCounterYValuesCall(s, key)
      [] op = "getCounterLastValue" -> Result(s, getCounterLastValue(s, key))
      [] op = "getMinValue" -> Result(s, getMinValue(s, key))
      [] op = "getMaxValue" -> Result(s, getMaxValue(s, key))
      [] op = "getAverageValue" -> Result(s, getAverageValue(s, key))
      [] op = "isRateCounter" -> Result(s, isRateCounter(s, key))
      [] op = "getLastTimePoint" -> Result(s, getLastTimePoint(s))
      [] op = "getPreLastTimePoint" -> Result(s, getPreLastTimePoint(s))

-----------------------------------------------------------------------------
(***************************************************************************)
(* CsvProfileProcessor (scripts/multi-file-chart.js).  A line is the       *)
(* sequence of its cells (line.split(',')).  A cell is its text together   *)
(* with the number its longest numeric prefix denotes; numbers that come   *)
(* from a line are held in tenths (fixed point), so that a frame time of   *)
(* 0.4 ms can be written: 4.                                               *)
(***************************************************************************)
NoLead == -999999
Cell(txt, lead) == [txt |-> txt, lead |-> lead]

\* parseFloat(values[index]): undefined (a line with fewer cells) and a text
\* without a leading number give NaN.  Cells are numbered from 1.
parseFloat(values, index) ==
    IF index > Len(values) THEN NaN
    ELSE IF values[index].lead = NoLead THEN NaN
    ELSE Num(values[index].lead)

\* v || 0, for v a number, NaN or undefined
OrZero(v) == IF v.k = "num" /\ v.ms # 0 THEN v.ms ELSE 0

\* mutant of MathRound: Math.floor is taken
MathRound_Floor(tenths) == tenths \div 10

\* Math.round of a number held in tenths
MathRound(tenths) == (tenths + 5) \div 10

\* headers.indexOf(name), 0 standing for -1
IndexOf(headers, name) ==
    IF \E j \in 1..Len(headers) : headers[j].txt = name
    THEN CHOOSE j \in 1..Len(headers) :
             /\ headers[j].txt = name
             /\ \A l \in 1..(j - 1) : headers[l].txt # name
    ELSE 0

\* header.startsWith('Exclusive/GameThread/')
CpuHeaders == {"Exclusive/GameThread/A", "Exclusive/GameThread/B"}

\* parseHeaders(line): the columns that are missing are deleted from the map
parseHeaders(line) ==
    LET all == [memory |-> IndexOf(line, "PhysicalUsedMB"),
                frameTime |-> IndexOf(line, "FrameTime"),
                playerCount |-> IndexOf(line, "Replication/Connections")]
        present == {key \in DOMAIN all : all[key] # 0}
    IN  [cols |-> [key \in present |-> all[key]],
         cpuColumns |-> SelectSeq([j \in 1..Len(line) |-> j],
                                  LAMBDA j : line[j].txt \in CpuHeaders)]

\* the sum of parseFloat(values[index]) || 0 over the first n CPU columns
RECURSIVE CpuSum(_, _, _)
CpuSum(values, cpuColumns, n) ==
    IF n = 0 THEN 0
    ELSE CpuSum(values, cpuColumns, n - 1) + OrZero(parseFloat(values, cpuColumns[n]))

\* mutant of extractDataPoint: the fields are not coerced (no "|| 0")
extractDataPoint_NoCoerce(cs, line) ==
    LET field(key) == IF key \in DOMAIN cs.columnMap.cols
                      THEN parseFloat(line, cs.columnMap.cols[key])
                      ELSE Undef
    IN  [index |-> cs.lineCount,
         cpuTotal |-> CpuSum(line, cs.columnMap.cpuColumns, Len(cs.columnMap.cpuColumns)),
         memory |-> field("memory"),
         frameTime |-> field("frameTime"),
         playerCount |-> field("playerCount")]

\* extractDataPoint(line): a field whose column is missing stays undefined
extractDataPoint(cs, line) ==
    LET field(key) == IF key \in DOMAIN cs.columnMap.cols
                      THEN Num(OrZero(parseFloat(line, cs.columnMap.cols[key])))
                      ELSE Undef
    IN  [index |-> cs.lineCount,
         cpuTotal |-> CpuSum(line, cs.columnMap.cpuColumns, Len(cs.columnMap.cpuColumns)),
         memory |-> field("memory"),
         frameTime |-> field("frameTime"),
         playerCount |-> field("playerCount")]

\* The processor after construction.
NewCsvProfileProcessor ==
    [columnMap |-> [cols |-> EmptyMap, cpuColumns |-> <<>>],
     lineCount |-> 0, isFirstLine |-> TRUE, processedData |-> <<>>,
     sampleCounter |-> 0, time |-> 0]

\* What a step of the processor produces: the store, the processor and the
\* calls made on the store, in order.
Step(s, cs, log) == [st |-> s, csv |-> cs, log |-> log]
Then(step, r, c) == Step(r.st, step.csv, Append(step.log, c))

\* One setNewCounterValue call of updateMetrics.
SetCounter(step, key, value, time, dedupe) ==
    LET r == setNewCounterValue(step.st, key, value, NoLabel, time, TRUE, dedupe)
    IN  Then(step, r, Call("setValue", key, value, time, NoLabel, TRUE, dedupe, r))

\* updateMetrics(row), row.time being a Date.  cpuPerc is
\* cpuTotal / frameTimeMS * 100, in tenths; the division is exact for the
\* cells of Lines.
updateMetrics(s, cs, row, time) ==
    LET memoryMB == OrZero(row.memory)
        frameTimeMS == row.frameTime
        playerCount == OrZero(row.playerCount)
    IN  IF frameTimeMS.k # "num" \/ frameTimeMS.ms <= 0 THEN Step(s, cs, <<>>)
        ELSE LET cpuTotal == row.cpuTotal
                 cpuPerc == (cpuTotal * 1000) \div frameTimeMS.ms
                 r1 == incrementRateCounter(s, "TPS", 1, time)
                 s1 == Then(Step(s, cs, <<>>), r1,
                            Call("incrementRate", "TPS", 1, time, NoLabel, FALSE, FALSE, r1))
                 s2 == [s1 EXCEPT !.csv.sampleCounter = @ + 1]
                 s3 == IF s2.csv.sampleCounter % SAMPLE_RATE = 0
                       THEN SetCounter(SetCounter(SetCounter(s2,
                                "CPU Time (ms)", cpuTotal, time, FALSE),
                                "CPU Load %", cpuPerc, time, FALSE),
                                "Memory Used (MB)", memoryMB, time, TRUE)
                       ELSE s2
                 s4 == SetCounter(s3, "Player Count", playerCount, time, TRUE)
             IN  [s4 EXCEPT !.csv.processedData =
                     Append(@, [index |-> Len(@), sample |-> Len(@), memoryMB |-> memoryMB,
                                tps |-> Ratio(10000, frameTimeMS.ms),
                                cpuTotal |-> cpuTotal, playerCount |-> playerCount])]

\* analyzeLine(line): isNaN(undefined) holds, so a row without a frame time
\* returns before the clock moves; the early return also skips #lineCount++.
analyzeLine(s, cs, line) ==
    IF cs.isFirstLine
    THEN Step(s, [cs EXCEPT !.columnMap = parseHeaders(line), !.isFirstLine = FALSE], <<>>)
    ELSE LET dataPoint == extractDataPoint(cs, line)
         IN IF dataPoint.frameTime.k # "num" \/ dataPoint.frameTime.ms <= 0
            THEN Step(s, cs, <<>>)
            ELSE LET cs1 == [cs EXCEPT !.time = @ + MathRound(dataPoint.frameTime.ms)]
                     time == DateObj(cs1.time, s.nextId)
                     r0 == addTimePoint([s EXCEPT !.nextId = @ + 1], time)
                     s0 == Then(Step(s, cs1, <<>>), r0,
                                Call("addTimePoint", "", 0, time, NoLabel, FALSE, FALSE, r0))
                     s1 == updateMetrics(s0.st, s0.csv, dataPoint, time)
                 IN  Step(s1.st, [s1.csv EXCEPT !.lineCount = @ + 1], s0.log \o s1.log)

-----------------------------------------------------------------------------
(***************************************************************************)
(* processAllFiles (index.js).  processSingleFile is taken by its outcome: *)
(* the promise it returns is fulfilled with {file, outputPath} or rejected *)
(* with an Error, whose message is the outcome.  attempts lists the files  *)
(* handed to processSingleFile, in order.                                  *)
(***************************************************************************)
NoBatch == [files |-> <<>>, i |-> 0, results |-> <<>>, attempts |-> <<>>, pc |-> "idle"]

Fulfilled == "fulfilled"
OutputPath(file) == <<"./output/", file, "_readable-chart.png">>

\* processAllFiles(inputDir, files) up to the loop: const results = []; i = 0
processAllFiles(files) ==
    [files |-> files, i |-> 0, results |-> <<>>, attempts |-> <<>>, pc |-> "loop"]

\* mutant of LoopBody: no catch, the rejection leaves processAllFiles
LoopBody_NoCatch(b, outcome) ==
    LET file == b.files[b.i + 1]
    IN  IF outcome = Fulfilled
        THEN [b EXCEPT !.attempts = Append(@, file),
                       !.results = Append(@, [file |-> file, outputPath |-> OutputPath(file)]),
                       !.i = @ + 1]
        ELSE [b EXCEPT !.attempts = Append(@, file), !.pc = "rejected"]

\* index.js:106-119, one iteration of the loop (files[i] is files[i + 1]
\* here): try { results.push(await processSingleFile(...)) }
\* catch (error) { results.push({ file, error: error.message }) }; i++
LoopBody(b, outcome) ==
    LET file == b.files[b.i + 1]
    IN  IF outcome = Fulfilled
        THEN [b EXCEPT !.attempts = Append(@, file),
                       !.results = Append(@, [file |-> file, outputPath |-> OutputPath(file)]),
                       !.i = @ + 1]
        ELSE [b EXCEPT !.attempts = Append(@, file),
                       !.results = Append(@, [file |-> file, error |-> outcome]),
                       !.i = @ + 1]

-----------------------------------------------------------------------------
(***************************************************************************)
(* The state machine.                                                      *)
(***************************************************************************)
Init ==
    /\ timePoints = <<>>
    /\ counters = EmptyMap
    /\ numericalCounters = EmptyMap
    /\ heaps = EmptyMap
    /\ rateCounters = EmptyMap
    /\ userVars = EmptyMap
    /\ infiniteMaps = EmptyMap
    /\ nextId = 1
    /\ calls = <<>>
    /\ clock = 0
    /\ reference = EmptyMap
    /\ candidate = EmptyMap
    /\ comparison = EmptyMap
    /\ csv = NewCsvProfileProcessor
    /\ lines = <<>>
    /\ batch = NoBatch

\* The store after a call that produced r, logged as c.
Apply(r, c) ==
    /\ timePoints' = r.st.timePoints
    /\ counters' = r.st.counters
    /\ numericalCounters' = r.st.numericalCounters
    /\ heaps' = r.st.heaps
    /\ rateCounters' = r.st.rateCounters
    /\ nextId' = r.st.nextId
    /\ calls' = Append(calls, c)
    /\ UNCHANGED <<cmpVars, auxVars, extVars>>

\* The caller makes a Date for time t (t < 0: the call passes no time).
NoTime == -1
Fresh(t) == IF t = NoTime THEN Null ELSE DateObj(t, nextId)
AfterFresh(t) == IF t = NoTime THEN Cur ELSE [Cur EXCEPT !.nextId = @ + 1]
Tick(t) == clock' = IF t = NoTime THEN clock ELSE t

\* addTimePoint(time)
AddTimePoint(time) ==
    /\ Apply(addTimePoint(Cur, time),
             Call("addTimePoint", "", 0, time, NoLabel, FALSE, FALSE, addTimePoint(Cur, time)))
    /\ clock' = time.ms

\* addTimePoint(new Date(t))
AddTimePointDate(t) ==
    LET r == addTimePoint(AfterFresh(t), Fresh(t))
    IN  /\ Apply(r, Call("addTimePoint", "", 0, Fresh(t), NoLabel, FALSE, FALSE, r))
        /\ Tick(t)

\* incrementRateCounter(key, delta, new Date(t))
IncrementRate(key, delta, t) ==
    LET r == incrementRateCounter(AfterFresh(t), key, delta, Fresh(t))
    IN  /\ Apply(r, Call("incrementRate", key, delta, Fresh(t), NoLabel, FALSE, FALSE, r))
        /\ Tick(t)

\* incrementFrequencyCounter(key, new Date(t), delta), or without a time
IncrementFrequency(key, delta, t) ==
    LET r == incrementFrequencyCounter(AfterFresh(t), key, Fresh(t), delta)
    IN  /\ Apply(r, Call("incrementFrequency", key, delta, Fresh(t), NoLabel, FALSE, FALSE, r))
        /\ Tick(t)

\* incrementCounter(key, delta, new Date(t)), or without a time
Increment(key, delta, t) ==
    LET r == incrementCounter(AfterFresh(t), key, delta, Fresh(t))
    IN  /\ Apply(r, Call("increment", key, delta, Fresh(t), NoLabel, FALSE, FALSE, r))
        /\ Tick(t)

\* setNewCounterValue(key, value, label, new Date(t), skipDuplication, deduplicateData)
SetValue(key, value, label, t, skip, dedupe) ==
    LET r == setNewCounterValue(AfterFresh(t), key, value, label, Fresh(t), skip, dedupe)
    IN  /\ Apply(r, Call("setValue", key, value, Fresh(t), label, skip, dedupe, r))
        /\ Tick(t)

\* getRateCounterData(key)
GetRateCounterData(key) ==
    LET r == getRateCounterDataCall(Cur, key)
    IN  /\ Apply(r, Call("getRateCounterData", key, 0, Null, NoLabel, FALSE, FALSE, r))
        /\ UNCHANGED clock

\* setVar(key, value)
SetVar(key, value) ==
    /\ userVars' = setVar(userVars, key, value)
    /\ calls' = Append(calls, Call("setVar", key, value, Null, NoLabel, FALSE, FALSE,
                                   Result(Cur, Undef)))
    /\ UNCHANGED <<storeVars, infiniteMaps, clock, cmpVars, extVars>>

\* setInfiniteMapValue(...keys, value)
SetInfiniteMapValue(keys, value) ==
    LET r == setInfiniteMapValue(infiniteMaps, keys, value)
    IN  /\ infiniteMaps' = r.m
        /\ calls' = Append(calls, Call("setInfiniteMapValue", keys, value, Null, NoLabel,
                                       FALSE, FALSE,
                                       IF r.err THEN Throw(Cur) ELSE Result(Cur, Undef)))
        /\ UNCHANGED <<storeVars, userVars, clock, cmpVars, extVars>>

\* clearAll()
ClearAll ==
    /\ timePoints' = clearAll(Cur).timePoints
    /\ counters' = clearAll(Cur).counters
    /\ numericalCounters' = clearAll(Cur).numericalCounters
    /\ heaps' = clearAll(Cur).heaps
    /\ rateCounters' = clearAll(Cur).rateCounters
    /\ userVars' = EmptyMap
    /\ infiniteMaps' = EmptyMap
    /\ calls' = Append(calls, Call("clearAll", "", 0, Null, NoLabel, FALSE, FALSE,
                                   Result(Cur, Undef)))
    /\ UNCHANGED <<nextId, clock, cmpVars, extVars>>

\* StatsComparer(ref, cand)
Compare(ref, cand) ==
    /\ reference' = ref
    /\ candidate' = cand
    /\ comparison' = StatsComparer(ref, cand)
    /\ UNCHANGED <<storeVars, auxVars, calls, clock, extVars>>

\* a read query of the store
Query(op, key, maxTime) ==
    LET r == ReadCall(Cur, op, key, maxTime)
    IN  /\ Apply(r, Call(op, key, 0, maxTime, NoLabel, FALSE, FALSE, r))
        /\ UNCHANGED clock

\* getVar(key): this.vars.get(key)
GetVar(key) ==
    /\ calls' = Append(calls, Call("getVar", key, 0, Null, NoLabel, FALSE, FALSE,
                                   Result(Cur, getVar(userVars, key))))
    /\ UNCHANGED <<storeVars, auxVars, clock, cmpVars, extVars>>

\* getInfiniteMapValue(...keys): the walk reads with has and get only
GetInfiniteMapValue(keys) ==
    LET g == getInfiniteMapValue(infiniteMaps, keys)
    IN  /\ calls' = Append(calls, Call("getInfiniteMapValue", keys, 0, Null, NoLabel,
                                       FALSE, FALSE,
                                       IF g.err THEN Throw(Cur) ELSE Result(Cur, g)))
        /\ UNCHANGED <<storeVars, auxVars, clock, cmpVars, extVars>>

\* processAllFiles(inputDir, files) is called
StartBatch(files) ==
    /\ batch.pc = "idle"
    /\ batch' = processAllFiles(files)
    /\ UNCHANGED <<storeVars, auxVars, cmpVars, calls, clock, csv, lines>>

\* one iteration of the loop, with the outcome of processSingleFile
ProcessFile(outcome) ==
    /\ batch.pc = "loop"
    /\ batch.i < Len(batch.files)
    /\ batch' = LoopBody(batch, outcome)
    /\ UNCHANGED <<storeVars, auxVars, cmpVars, calls, clock, csv, lines>>

\* the loop condition i < files.length fails: processAllFiles returns
FinishBatch ==
    /\ batch.pc = "loop"
    /\ batch.i >= Len(batch.files)
    /\ batch' = [batch EXCEPT !.pc = "done"]
    /\ UNCHANGED <<storeVars, auxVars, cmpVars, calls, clock, csv, lines>>

\* processLine(line)
ProcessLine(line) ==
    \E r \in {analyzeLine(Cur, csv, line)} :
        /\ timePoints' = r.st.timePoints
        /\ counters' = r.st.counters
        /\ numericalCounters' = r.st.numericalCounters
        /\ heaps' = r.st.heaps
        /\ rateCounters' = r.st.rateCounters
        /\ nextId' = r.st.nextId
        /\ csv' = r.csv
        /\ calls' = calls \o r.log
        /\ lines' = Append(lines, [line |-> line, header |-> csv.isFirstLine,
                                   dataPoint |-> extractDataPoint(csv, line),
                                   time |-> r.csv.time, calls |-> r.log])
        /\ clock' = r.csv.time
        /\ UNCHANGED <<auxVars, cmpVars, batch>>

(***************************************************************************)
(* SpecAxis: addTimePoint alone, with timestamps as the integers of the    *)
(* data model, supplied in non-decreasing order.                           *)
(***************************************************************************)
NextAxis ==
    \E t \in TimeValues :
        /\ Len(calls) < MaxAxisOps
        /\ t >= clock
        /\ AddTimePoint(Num(t))

SpecAxis == Init /\ [][NextAxis]_vars

(***************************************************************************)
(* SpecRate: rate-bucketed keys.                                           *)
(***************************************************************************)
NextRate ==
    \E key \in Keys, delta \in Deltas, t \in TimeValues :
        /\ Len(calls) < MaxRateOps
        /\ t >= clock
        /\ IncrementRate(key, delta, t)

SpecRate == Init /\ [][NextRate]_vars

(***************************************************************************)
(* SpecFreq: frequency counters.                                           *)
(***************************************************************************)
NextFreq ==
    \E key \in Keys, delta \in Deltas, t \in TimeValues \cup {NoTime} :
        /\ Len(calls) < MaxFreqOps
        /\ t = NoTime \/ t >= clock
        /\ IncrementFrequency(key, delta, t)

SpecFreq == Init /\ [][NextFreq]_vars

(***************************************************************************)
(* SpecNum: numeric writes; the caller's clock advances by TickMs a call.  *)
(***************************************************************************)
NumSetValue ==
    \E key \in Keys, value \in Values, dedupe \in BOOLEAN :
        /\ Len(calls) < MaxNumOps
        /\ SetValue(key, value, NoLabel, clock + TickMs, TRUE, dedupe)

NumIncrement ==
    \E key \in Keys, delta \in Deltas :
        /\ Len(calls) < MaxNumOps
        /\ Increment(key, delta, clock + TickMs)

NextNum == NumSetValue \/ NumIncrement

SpecNum == Init /\ [][NextNum]_vars

(***************************************************************************)
(* SpecCmp: the comparer on every pair of mappings.                        *)
(***************************************************************************)
NextCmp == \E ref \in Mappings, cand \in Mappings : Compare(ref, cand)

SpecCmp == Init /\ [][NextCmp]_vars

(***************************************************************************)
(* SpecIncr: the two kinds of increment, with or without a time, on the    *)
(* same keys.                                                              *)
(***************************************************************************)
IncrTimeArgs == {t \in StoreTimes : t >= clock} \cup {NoTime}

IncrFrequency ==
    \E key \in Keys, delta \in Deltas, t \in IncrTimeArgs :
        Len(calls) < MaxIncrOps /\ IncrementFrequency(key, delta, t)

IncrAppend ==
    \E key \in Keys, delta \in Deltas, t \in IncrTimeArgs :
        Len(calls) < MaxIncrOps /\ Increment(key, delta, t)

NextIncr == IncrFrequency \/ IncrAppend

SpecIncr == Init /\ [][NextIncr]_vars

(***************************************************************************)
(* SpecRead: rate-bucketed keys, written and read.                         *)
(***************************************************************************)
ReadIncrement ==
    \E key \in Keys, delta \in Deltas, t \in StoreTimes :
        /\ Len(calls) < MaxReadOps
        /\ t >= clock
        /\ IncrementRate(key, delta, t)

ReadSeries ==
    \E key \in Keys : Len(calls) < MaxReadOps /\ GetRateCounterData(key)

NextRead == ReadIncrement \/ ReadSeries

SpecRead == Init /\ [][NextRead]_vars

(***************************************************************************)
(* SpecSet: setValue on both routes, with times in any order (the store    *)
(* does not check that the times it is given do not decrease).             *)
(***************************************************************************)
SetTimeArgs == StoreTimes \cup {NoTime}

SetNumeric ==
    \E key \in Keys, value \in StoreValues, t \in SetTimeArgs, dedupe \in BOOLEAN :
        Len(calls) < MaxSetOps /\ SetValue(key, value, NoLabel, t, TRUE, dedupe)

SetLabeled ==
    \E key \in Keys, value \in StoreValues, t \in SetTimeArgs, skip \in BOOLEAN :
        Len(calls) < MaxSetOps /\ SetValue(key, value, "label", t, skip, FALSE)

SetText ==
    \E key \in Keys, t \in SetTimeArgs, skip \in BOOLEAN :
        Len(calls) < MaxSetOps /\ SetValue(key, TextValue, NoLabel, t, skip, FALSE)

NextSet == SetNumeric \/ SetLabeled \/ SetText

SpecSet == Init /\ [][NextSet]_vars

(***************************************************************************)
(* SpecMap: writes to the composite-key index, under key tuples of 0, 1    *)
(* and 2 components.                                                       *)
(***************************************************************************)
MapKeys == {"x", "y"}
MapValues == {1, 2}
KeyTuples == {<<>>} \cup {<<k>> : k \in MapKeys} \cup {<<k, l>> : k, l \in MapKeys}

NextMap ==
    \E keys \in KeyTuples, value \in MapValues :
        Len(calls) < MaxMapOps /\ SetInfiniteMapValue(keys, value)

SpecMap == Init /\ [][NextMap]_vars

(***************************************************************************)
(* Spec: every kind of write, interleaved on the same keys.                *)
(***************************************************************************)
StoreTimeArgs == {t \in StoreTimes : t >= clock} \cup {NoTime}

StoreAddTimePoint ==
    \E t \in StoreTimeArgs : Len(calls) < MaxStoreOps /\ t # NoTime /\ AddTimePointDate(t)

StoreSetNumeric ==
    \E key \in Keys, value \in StoreValues, t \in StoreTimeArgs, dedupe \in BOOLEAN :
        Len(calls) < MaxStoreOps /\ SetValue(key, value, NoLabel, t, TRUE, dedupe)

StoreSetLabeled ==
    \E key \in Keys, value \in StoreValues, t \in StoreTimeArgs, skip \in BOOLEAN :
        Len(calls) < MaxStoreOps /\ SetValue(key, value, "label", t, skip, FALSE)

StoreIncrement ==
    \E key \in Keys, delta \in StoreDeltas, t \in StoreTimeArgs :
        Len(calls) < MaxStoreOps /\ Increment(key, delta, t)

StoreIncrementFrequency ==
    \E key \in Keys, delta \in StoreDeltas, t \in StoreTimeArgs :
        Len(calls) < MaxStoreOps /\ IncrementFrequency(key, delta, t)

StoreIncrementRate ==
    \E key \in Keys, delta \in StoreDeltas, t \in StoreTimeArgs :
        Len(calls) < MaxStoreOps /\ t # NoTime /\ IncrementRate(key, delta, t)

Next ==
    \/ StoreAddTimePoint
    \/ StoreSetNumeric
    \/ StoreSetLabeled
    \/ StoreIncrement
    \/ StoreIncrementFrequency
    \/ StoreIncrementRate

Spec == Init /\ [][Next]_vars

(***************************************************************************)
(* SpecClear: the writes of Spec and those to the variables and to the     *)
(* composite-key index, and clearAll.                                      *)
(***************************************************************************)
ClearSetVar ==
    \E key \in Keys, value \in StoreValues :
        Len(calls) < MaxStoreOps /\ SetVar(key, value)

ClearSetMap ==
    \E keys \in KeyTuples \ {<<>>} :
        Len(calls) < MaxStoreOps /\ SetInfiniteMapValue(keys, 1)

ClearStore == Len(calls) < MaxClearOps /\ ClearAll

NextClear == Next \/ ClearSetVar \/ ClearSetMap \/ ClearStore

SpecClear == Init /\ [][NextClear]_vars

(***************************************************************************)
(* SpecQuery: writes of every kind to key "a", to the variables and to the *)
(* composite-key index, and the read queries on "a" and on the key "b",    *)
(* which is never written.                                                 *)
(***************************************************************************)
QueryTimes == {900}
QueryEndTime == Num(2100)

QueryWrite ==
    \E t \in QueryTimes :
        /\ Len(calls) < MaxQueryOps
        /\ \/ SetValue("a", 2, NoLabel, t, TRUE, FALSE)
           \/ SetValue("a", 2, "label", t, TRUE, FALSE)
           \/ IncrementRate("a", 1, t)
           \/ IncrementFrequency("a", 1, t)

QueryWriteAux ==
    /\ Len(calls) < MaxQueryOps
    /\ SetVar("a", 2) \/ SetInfiniteMapValue(<<"x", "y">>, 1)

QueryRead ==
    \E op \in ReadOps, key \in Keys :
        /\ Len(calls) < MaxQueryOps
        /\ op \in {"getLastTimePoint", "getPreLastTimePoint"} => key = "a"
        /\ Query(op, key, QueryEndTime)

QueryReadAux ==
    /\ Len(calls) < MaxQueryOps
    /\ \/ \E key \in Keys : GetVar(key)
       \/ \E keys \in {<<"x">>, <<"x", "y">>, <<"y", "x">>} : GetInfiniteMapValue(keys)

NextQuery == QueryWrite \/ QueryWriteAux \/ QueryRead \/ QueryReadAux

SpecQuery == Init /\ [][NextQuery]_vars

(***************************************************************************)
(* SpecCsv: one CsvProfileProcessor fed lines.  The first line fed is read *)
(* as the header whatever it holds; later lines are read as rows.          *)
(***************************************************************************)
Text(txt) == Cell(txt, NoLead)

FullHeader ==
    <<Text("PhysicalUsedMB"), Text("FrameTime"), Text("Exclusive/GameThread/A"),
      Text("Exclusive/GameThread/B"), Text("Replication/Connections")>>

\* the header of a file with every column, and one without frame times
HeaderLines == {FullHeader, <<Text("PhysicalUsedMB"), Text("Replication/Connections")>>}

\* a whole row, for each frame time
FullLines ==
    { <<Cell("2.0", 20), ft, Cell("2.0", 20), Cell("1.0", 10), Cell("2.0", 20)>> :
        ft \in {Cell("-1.0", -10), Cell("0", 0), Cell("0.4", 4), Cell("0.5", 5),
                Cell("1000.0", 10000), Text("abc")} }

\* a row whose memory and first CPU cell are text and whose last two cells
\* are missing
ShortLines ==
    { <<Text("abc"), ft, Text("")>> :
        ft \in {Cell("0.4", 4), Cell("1000.0", 10000), Cell("1.0abc", 10)} }

Lines == HeaderLines \cup FullLines \cup ShortLines \cup { <<Text("")>> }

NextCsv == \E line \in Lines : Len(lines) < MaxLines /\ ProcessLine(line)

SpecCsv == Init /\ [][NextCsv]_vars

(***************************************************************************)
(* SpecBatch: processAllFiles on every listing of up to MaxFiles files,    *)
(* each file processed with either outcome.  An awaited promise settles    *)
(* and the loop then goes on, hence the weak fairness of its steps.        *)
(***************************************************************************)
FileNames == {"a.csv", "b.csv"}
Outcomes == {Fulfilled, "ENOENT: no such file or directory"}
Listings == UNION {[1..n -> FileNames] : n \in 0..MaxFiles}

BatchStart == \E files \in Listings : StartBatch(files)
BatchFile == \E outcome \in Outcomes : ProcessFile(outcome)
BatchEnd == FinishBatch

NextBatch == BatchStart \/ BatchFile \/ BatchEnd

SpecBatch == Init /\ [][NextBatch]_vars /\ WF_vars(BatchFile) /\ WF_vars(BatchEnd)

-----------------------------------------------------------------------------
(***************************************************************************)
(* Properties.                                                             *)
(***************************************************************************)
\* The calls of a log that address key k, in order.
CallsOn(cs, k) == SelectSeq(cs, LAMBDA c : c.key = k)

\* The sum of the numeric arguments (values, deltas) of a sequence of calls.
RECURSIVE SumVals(_)
SumVals(cs) == IF Len(cs) = 0 THEN 0 ELSE SumVals(SubSeq(cs, 1, Len(cs) - 1)) + LastOf(cs).val

\* getSeries(key), for a key that holds a series
Series(k) == getCounterData(Cur, k).pts

Committed(rc, k) == IF k \in DOMAIN rc THEN rc[k].data ELSE <<>>

\* floor(t / 1000) of the time a call carried
SecondOf(c) == c.time.ms \div 1000

\* C2: incrementRate appends to the key's committed sequence only when
\* floor(t/1000) exceeds the second of the previous call for that key, and then
\* exactly one point: (time of that previous call, sum of the deltas of the
\* calls in the previous call's second); a call in the same second, and the
\* first call, append nothing.
C2_RateCommit ==
    [][ LET c == LastOf(calls')
            prev == CallsOn(calls, c.key)
        IN  IF Len(prev) = 0
            THEN Committed(rateCounters', c.key) = <<>>
            ELSE LET p == LastOf(prev)
                     bucket == SelectSeq(prev, LAMBDA q : SecondOf(q) = SecondOf(p))
                 IN IF SecondOf(c) > SecondOf(p)
                    THEN Committed(rateCounters', c.key) =
                           Append(Committed(rateCounters, c.key),
                                  Point(Num(p.time.ms), SumVals(bucket), NoLabel))
                    ELSE Committed(rateCounters', c.key) = Committed(rateCounters, c.key)
      ]_vars

\* Increments of 1 at t = 100, 300, 900, 1100 on one key have committed
\* exactly the point (900, 3).
C2_Witness ==
    /\ Len(calls) = 4
    /\ \A i \in 1..4 : calls[i].key = "a" /\ calls[i].val = 1
    /\ <<calls[1].time.ms, calls[2].time.ms, calls[3].time.ms, calls[4].time.ms>>
         = <<100, 300, 900, 1100>>
    /\ rateCounters["a"].data = <<Point(Num(900), 3, NoLabel)>>

\* The key holds a LabeledSeries with at least one point.
HasPoints(c, k) == k \in DOMAIN c /\ c[k].kind = "array" /\ Len(c[k].pts) > 0

\* The value of a frequency counter: the value of its last point.
FreqValue(c, k) == LastOf(c[k].pts).y

\* The window of the reset rule, in ms.
ResetWindowMs == resetFrequencySeconds * 1000

\* C3: with resetWindowMs = 1000, an incrementFrequency(key, delta, t) call
\* leaves the counter at delta when the key is new or t minus the time of the
\* counter's last point exceeds 1000, and at the previous value plus delta
\* otherwise; increments of 1 at t = 0, 500, 2000 on a new store leave the
\* counter at 1.
C3_FrequencyReset ==
    [][ LET c == LastOf(calls')
            k == c.key
        IN  /\ (c.time # Null /\ k \notin DOMAIN counters)
                  => HasPoints(counters', k) /\ FreqValue(counters', k) = c.val
            /\ (c.time # Null /\ HasPoints(counters, k) /\ LastOf(counters[k].pts).x.k = "date")
                  => /\ HasPoints(counters', k)
                     /\ FreqValue(counters', k) =
                          IF c.time.ms - LastOf(counters[k].pts).x.ms > ResetWindowMs
                          THEN c.val
                          ELSE FreqValue(counters, k) + c.val
            /\ ( /\ Len(calls') = 3
                 /\ \A i \in 1..3 : calls'[i].key = k /\ calls'[i].val = 1
                                      /\ calls'[i].time # Null
                 /\ <<calls'[1].time.ms, calls'[2].time.ms, calls'[3].time.ms>> = <<0, 500, 2000>> )
                  => HasPoints(counters', k) /\ FreqValue(counters', k) = 1
      ]_vars

\* The part of C3 that the code keeps: the rule, for a counter whose last
\* point carries a time.
C3_RuleWhenTimed ==
    [][ LET c == LastOf(calls')
            k == c.key
        IN  /\ (c.time # Null /\ k \notin DOMAIN counters)
                  => HasPoints(counters', k) /\ FreqValue(counters', k) = c.val
            /\ (c.time # Null /\ HasPoints(counters, k) /\ LastOf(counters[k].pts).x.k = "date")
                  => /\ HasPoints(counters', k)
                     /\ FreqValue(counters', k) =
                          IF c.time.ms - LastOf(counters[k].pts).x.ms > ResetWindowMs
                          THEN c.val
                          ELSE FreqValue(counters, k) + c.val
      ]_vars

\* Increments of 1 at t = 100, 500, 2000: the third one restarted the count.
C3_Witness ==
    /\ Len(calls) = 3
    /\ \A i \in 1..3 : calls[i].key = "a" /\ calls[i].val = 1 /\ calls[i].time # Null
    /\ <<calls[1].time.ms, calls[2].time.ms, calls[3].time.ms>> = <<100, 500, 2000>>
    /\ HasPoints(counters, "a") /\ FreqValue(counters, "a") = 1

\* C4: for a key written only by increment(key, delta_i) calls, after each
\* call the last value of getSeries(key) is the sum of the deltas so far.
C4_IncrementAccumulates ==
    \A k \in Keys :
        LET cs == CallsOn(calls, k)
        IN  (Len(cs) > 0 /\ \A i \in 1..Len(cs) : cs[i].op = "increment")
               => Len(Series(k)) > 0 /\ LastOf(Series(k)).y = SumVals(cs)

\* A key has received two increments and nothing else.
C4_Witness ==
    LET cs == CallsOn(calls, "a")
    IN  Len(cs) = 2 /\ \A i \in 1..2 : cs[i].op = "increment"

\* The values the numeric writes of a log appended, in order: the value each
\* call returned, unless the call asked for dedupe and that value equals the
\* last one appended.
RECURSIVE Appended(_)
Appended(cs) ==
    IF Len(cs) = 0 THEN <<>>
    ELSE LET acc == Appended(SubSeq(cs, 1, Len(cs) - 1))
             c == LastOf(cs)
         IN IF c.dedupe /\ Len(acc) > 0 /\ LastOf(acc) = c.ret.y
            THEN acc
            ELSE Append(acc, c.ret.y)

MinOf(seq) == CHOOSE v \in {seq[i] : i \in DOMAIN seq} : \A i \in DOMAIN seq : v <= seq[i]
MaxOf(seq) == CHOOSE v \in {seq[i] : i \in DOMAIN seq} : \A i \in DOMAIN seq : v >= seq[i]

\* C5: after every numeric append to a key, min(key) and max(key) are the
\* minimum and maximum of all values appended to the key so far; min never
\* increases and max never decreases.
C5_RunningExtrema ==
    [][ \A k \in Keys :
          k \in DOMAIN numericalCounters' =>
            LET vals == Appended(CallsOn(calls', k))
            IN  /\ Len(vals) > 0
                /\ getMinValue(Cur', k) = Num(MinOf(vals))
                /\ getMaxValue(Cur', k) = Num(MaxOf(vals))
                /\ k \in DOMAIN numericalCounters =>
                      /\ getMinValue(Cur', k).ms <= getMinValue(Cur, k).ms
                      /\ getMaxValue(Cur', k).ms >= getMaxValue(Cur, k).ms
      ]_vars

\* A key holds three values whose minimum and maximum were appended before the last one.
C5_Witness ==
    /\ "a" \in DOMAIN numericalCounters
    /\ numericalCounters["a"].count = 3
    /\ getMinValue(Cur, "a") = Num(-1)
    /\ getMaxValue(Cur, "a") = Num(2)
    /\ numericalCounters["a"].values[3] = 0

\* C6: for a key written only through numeric, unlabelled setValue calls
\* without dedupe, after N appends average(key) is the sum of the N values
\* divided by N.
C6_Average ==
    \A k \in Keys :
        LET cs == CallsOn(calls, k)
        IN  ( /\ Len(cs) > 0
              /\ \A i \in 1..Len(cs) :
                    cs[i].op = "setValue" /\ cs[i].label = NoLabel /\ ~cs[i].dedupe )
               => getAverageValue(Cur, k) = Ratio(SumVals(cs), Len(cs))

\* Three values, not all equal, were appended without dedupe to one key.
C6_Witness ==
    LET cs == CallsOn(calls, "a")
    IN  /\ Len(cs) = 3
        /\ \A i \in 1..3 : cs[i].op = "setValue" /\ ~cs[i].dedupe
        /\ cs[1].val # cs[2].val
        /\ getAverageValue(Cur, "a").d = 3

\* C7: an append to a NumericSeries whose count has reached its capacity
\* doubles the capacity; every append leaves the (time, value) pairs appended
\* before it at their indices; count <= capacity in every state.
C7_GrowPreserves ==
    [][ \A k \in DOMAIN numericalCounters' :
          LET new == numericalCounters'[k]
          IN  /\ new.count <= new.capacity
              /\ k \in DOMAIN numericalCounters =>
                   LET old == numericalCounters[k]
                   IN  /\ \A i \in 1..old.count :
                             new.times[i] = old.times[i] /\ new.values[i] = old.values[i]
                       /\ (new.count = old.count + 1 /\ old.count = old.capacity)
                             => new.capacity = 2 * old.capacity
      ]_vars

\* A series has grown past its initial capacity.
C7_Witness ==
    /\ "a" \in DOMAIN numericalCounters
    /\ numericalCounters["a"].count = INITIAL_CAPACITY + 1
    /\ numericalCounters["a"].capacity = 2 * INITIAL_CAPACITY

\* The end times getSeriesExtended is asked for.
EndTimes == {0, 900, 2000, 2100}

\* The time of a point, when its x is a time (a number or a Date).
HasTime(p) == ToNumber(p.x).k = "num"
TimeOf(p) == ToNumber(p.x).ms

\* C8: getSeriesExtended(key, endTime) is getSeries(key) followed by exactly
\* one extra point (endTime, last value) when the time of the last point of
\* getSeries(key) is strictly less than endTime, and is exactly getSeries(key)
\* when that time equals endTime or the series is empty.
C8_Extended ==
    \A k \in Keys, e \in EndTimes :
        getCounterData(Cur, k).kind = "array" =>
            LET ext == getCounterDataExtended(Cur, k, Num(e))
            IN  /\ ~ext.err
                /\ Len(Series(k)) = 0 => ext.pts = <<>>
                /\ (Len(Series(k)) > 0 /\ HasTime(LastOf(Series(k)))) =>
                      /\ TimeOf(LastOf(Series(k))) < e =>
                            ext.pts = Append(Series(k),
                                             Point(Num(e), LastOf(Series(k)).y, NoLabel))
                      /\ TimeOf(LastOf(Series(k))) = e => ext.pts = Series(k)

\* One store holds a numeric key and a labelled key, each with a last point
\* at time 2000: extended to 2100 each gains one point, extended to 2000
\* neither does.
C8_Witness ==
    \E kn, kl \in Keys :
        /\ kn \in DOMAIN numericalCounters /\ kn \notin DOMAIN rateCounters
        /\ kl \in DOMAIN counters /\ kl \notin DOMAIN rateCounters
        /\ kl \notin DOMAIN numericalCounters /\ counters[kl].kind = "array"
        /\ \A k \in {kn, kl} :
              /\ Len(Series(k)) > 0
              /\ HasTime(LastOf(Series(k))) /\ TimeOf(LastOf(Series(k))) = 2000
              /\ getCounterDataExtended(Cur, k, Num(2100)).pts =
                    Append(Series(k), Point(Num(2100), LastOf(Series(k)).y, NoLabel))
              /\ getCounterDataExtended(Cur, k, Num(2000)).pts = Series(k)

\* C9: VariationComparer maps a key of reference to null exactly when the key
\* is absent from candidate; a key present in candidate, whatever its value
\* (0 included), maps to a variation record.
C9_NullIffAbsent ==
    \A k \in DOMAIN comparison :
        (comparison[k] = Null) <=> (k \notin DOMAIN candidate)

\* A key absent from candidate was mapped to null.
C9_Witness ==
    \E k \in DOMAIN reference : k \notin DOMAIN candidate /\ comparison[k] = Null

\* The part of C9 that the code keeps: null exactly for the keys that are
\* absent from candidate or hold 0 there.
C9_NullIffAbsentOrZero ==
    /\ DOMAIN comparison = DOMAIN reference
    /\ \A k \in DOMAIN comparison :
          (comparison[k] = Null) <=> (k \notin DOMAIN candidate \/ candidate[k] = 0)

\* C10: the result has exactly the keys of reference, and for each key present
\* in both mappings variation = candidate[k] - reference[k] and the percentage
\* is variation * 100 / reference[k].
C10_Variation ==
    /\ DOMAIN comparison = DOMAIN reference
    /\ \A k \in DOMAIN reference \cap DOMAIN candidate :
          /\ comparison[k] # Null
          /\ comparison[k].variation = candidate[k] - reference[k]
          /\ comparison[k].variationPerc =
                Ratio((candidate[k] - reference[k]) * 100, reference[k])

\* reference = {a: 10}, candidate = {a: 15} gave variation 5 and percentage
\* 500 / 10 = 50.
C10_Witness ==
    /\ reference = [k \in {"a"} |-> 10]
    /\ candidate = [k \in {"a"} |-> 15]
    /\ comparison = [k \in {"a"} |-> [variation |-> 5, variationPerc |-> Ratio(500, 10)]]

\* The time an incrementFrequency call counts from: its time argument, or the
\* TimeAxis tail when it has none.
TimeNowOf(c) == IF c.time # Null THEN c.time ELSE getLastTimePoint(Cur)

\* The call c finds a counter with points whose last point is more than the
\* window behind.
ResetsWithPoints(c) ==
    /\ c.op = "incrementFrequency"
    /\ HasPoints(counters, c.key)
    /\ NumLess(Num(ResetWindowMs),
               NumSub(ToNumber(TimeNowOf(c)), ToNumber(LastOf(counters[c.key].pts).x)))

\* C11 (as claimed): a reset of a frequency counter that has points appends
\* exactly two points, a zero point at the counter's old last timestamp and
\* a zero point at the new time, and the increment is applied to the latter.
C11_ResetAppendsTwo ==
    [][ LET c == LastOf(calls')
        IN  ResetsWithPoints(c) =>
              LET old == counters[c.key].pts
              IN  counters'[c.key].pts =
                    old \o <<Point(LastOf(old).x, 0, NoLabel),
                             Point(TimeNowOf(c), c.val, NoLabel)>>
      ]_vars

\* C11 (amended): such a reset appends exactly three points: a zero point
\* at the counter's old last timestamp, then two zero points at the new time
\* (the carried-forward duplicate of a write with skipDuplication = false and
\* the fresh point), and the increment is applied to the last of them.
C11_ResetAppendsThree ==
    [][ LET c == LastOf(calls')
        IN  ResetsWithPoints(c) =>
              LET old == counters[c.key].pts
              IN  counters'[c.key].pts =
                    old \o <<Point(LastOf(old).x, 0, NoLabel),
                             Point(TimeNowOf(c), 0, NoLabel),
                             Point(TimeNowOf(c), c.val, NoLabel)>>
      ]_vars

\* A counter created at t = 100 was reset by an increment at t = 2000.
C11_Witness ==
    /\ Len(calls) = 2
    /\ calls[1].key = "a" /\ calls[2].key = "a"
    /\ calls[1].time # Null /\ calls[1].time.ms = 100
    /\ calls[2].time # Null /\ calls[2].time.ms = 2000
    /\ Len(counters["a"].pts) = 5
    /\ counters["a"].pts[3].x = counters["a"].pts[2].x
    /\ counters["a"].pts[3].y = 0

\* The points of the key's NumericSeries (none when the key has no such series).
NumericSeriesOf(nc, k) == IF k \in DOMAIN nc THEN NumericPoints(nc[k]) ELSE <<>>

\* C12: an incrementFrequency call that triggers no reset leaves the number
\* of points of the key's series unchanged and changes only the value of the
\* last point, by exactly delta; an increment call appends exactly one new
\* point and modifies no existing point.
C12_InPlaceVersusAppend ==
    [][ LET c == LastOf(calls')
            k == c.key
        IN  /\ (c.op = "incrementFrequency" /\ HasPoints(counters, k) /\ ~ResetsWithPoints(c))
                  => /\ ~c.err
                     /\ counters'[k].pts =
                           [counters[k].pts EXCEPT ![Len(counters[k].pts)].y = @ + c.val]
                     /\ numericalCounters' = numericalCounters
            /\ c.op = "increment"
                  => LET old == NumericSeriesOf(numericalCounters, k)
                         new == NumericSeriesOf(numericalCounters', k)
                     IN  /\ ~c.err
                         /\ Len(new) = Len(old) + 1
                         /\ SubSeq(new, 1, Len(old)) = old
                         /\ counters' = counters
      ]_vars

\* Two incrementFrequency calls within the window left one key's two points
\* with the sum in the last one, and an increment on the same key then
\* appended a point elsewhere without touching them.
C12_Witness ==
    /\ Len(calls) = 3
    /\ \A i \in 1..3 : calls[i].key = "a" /\ ~calls[i].err
    /\ calls[1].op = "incrementFrequency" /\ calls[1].time # Null /\ calls[1].time.ms = 900
    /\ calls[2].op = "incrementFrequency" /\ calls[2].val = 2
    /\ calls[3].op = "increment"
    /\ Len(counters["a"].pts) = 2
    /\ counters["a"].pts[2].y = calls[1].val + 2
    /\ numericalCounters["a"].count = 1

\* C13: increment(key, delta) and incrementFrequency(key, delta) on a key that
\* has never been written, in any reachable state of the store (an empty
\* TimeAxis and no time argument included), complete without error, create
\* the key's series and leave its last value equal to delta.
C13_AbsentKeyIncrement ==
    [][ LET c == LastOf(calls')
            k == c.key
        IN  Len(CallsOn(calls, k)) = 0 =>
              /\ ~c.err
              /\ c.op = "increment" =>
                    /\ k \in DOMAIN numericalCounters'
                    /\ Len(NumericSeriesOf(numericalCounters', k)) > 0
                    /\ LastOf(NumericSeriesOf(numericalCounters', k)).y = c.val
              /\ c.op = "incrementFrequency" =>
                    /\ HasPoints(counters', k)
                    /\ FreqValue(counters', k) = c.val
      ]_vars

\* A key never written before received an incrementFrequency without a time
\* while the TimeAxis held a time, and its counter stands at delta.
C13_Witness ==
    /\ Len(calls) = 2
    /\ calls[1].key = "a" /\ calls[2].key = "b"
    /\ calls[2].op = "incrementFrequency" /\ calls[2].time = Null /\ ~calls[2].err
    /\ HasPoints(counters, "b") /\ FreqValue(counters, "b") = calls[2].val

\* The call c is a setValue that asks for dedupe and carries the value the
\* key's NumericSeries already ends with.
Suppressed(c) ==
    /\ c.op = "setValue" /\ c.label = NoLabel /\ IsNumber(c.val) /\ c.dedupe
    /\ c.key \in DOMAIN numericalCounters
    /\ numericalCounters[c.key].count > 0
    /\ LastOf(NumericSeriesOf(numericalCounters, c.key)).y = c.val

\* C14: a setValue call with dedupe = true whose value equals the current
\* last value of the key's NumericSeries appends nothing: the count, the
\* times, the values, the running min and the running max of the series are
\* the same after the call as before it.
C14_DedupeAppendsNothing ==
    [][ LET c == LastOf(calls')
            k == c.key
        IN  Suppressed(c) =>
              /\ numericalCounters'[k].count = numericalCounters[k].count
              /\ NumericSeriesOf(numericalCounters', k) = NumericSeriesOf(numericalCounters, k)
              /\ getMinValue(Cur', k) = getMinValue(Cur, k)
              /\ getMaxValue(Cur', k) = getMaxValue(Cur, k)
              /\ heaps' = heaps
      ]_vars

\* A full buffer of two points received a third write with dedupe and the
\* value it ends with: it grew, and still holds the same two points.
C14_Witness ==
    /\ Len(calls) = 3
    /\ \A i \in 1..3 : calls[i].key = "a" /\ calls[i].op = "setValue"
    /\ calls[1].val = 0 /\ calls[2].val = 2 /\ calls[3].val = 2 /\ calls[3].dedupe
    /\ numericalCounters["a"].count = 2
    /\ numericalCounters["a"].capacity = 2 * INITIAL_CAPACITY
    /\ getMinValue(Cur, "a") = Num(0) /\ getMaxValue(Cur, "a") = Num(2)

\* C15: a setValue call that dedupe suppresses returns the series' unchanged
\* last stored point: the time of the last point already in the series and
\* its value, not the time of the suppressed call.
C15_SuppressedReturnsLast ==
    [][ LET c == LastOf(calls')
        IN  Suppressed(c) =>
              c.ret = LastOf(NumericSeriesOf(numericalCounters, c.key))
      ]_vars

\* A write at one time was followed by a suppressed write at a later time.
C15_Witness ==
    /\ Len(calls) = 2
    /\ calls[1].key = "a" /\ calls[2].key = "a"
    /\ calls[1].op = "setValue" /\ calls[2].op = "setValue"
    /\ calls[2].dedupe /\ calls[2].val = calls[1].val
    /\ calls[2].time.ms > calls[1].time.ms
    /\ numericalCounters["a"].count = 1

\* The time of the point a setValue call stored last under its key, as a
\* number: in the NumericSeries for a write of a number without label, in
\* the LabeledSeries otherwise.
StoredTime(c, nc, cs) ==
    IF c.label = NoLabel /\ IsNumber(c.val)
    THEN ToNumber(LastOf(NumericSeriesOf(nc, c.key)).x)
    ELSE ToNumber(LastOf(cs[c.key].pts).x)

\* The call c is a setValue that stored a point.
Stores(c) == c.op = "setValue" /\ ~c.err /\ ~Suppressed(c)

\* C16: every setValue call (numeric or labelled) given a positive time t
\* registers t on the TimeAxis, so that lastTime() = t once the call
\* returns; a setValue call given no time stores its point with the
\* TimeAxis's current last timestamp and leaves the TimeAxis unchanged.
C16_TimeRegistered ==
    [][ LET c == LastOf(calls')
        IN  c.op = "setValue" =>
              /\ (c.time # Null /\ c.time.ms > 0) =>
                    ToNumber(getLastTimePoint(Cur')) = Num(c.time.ms)
              /\ c.time = Null =>
                    /\ timePoints' = timePoints
                    /\ Stores(c) =>
                          StoredTime(c, numericalCounters', counters')
                            = ToNumber(getLastTimePoint(Cur))
      ]_vars

\* A labelled write at t = 900 put 900 at the tail of the TimeAxis, and a
\* numeric write without a time then stored its point at 900.
C16_Witness ==
    /\ Len(calls) = 2
    /\ calls[1].op = "setValue" /\ calls[1].label # NoLabel
    /\ calls[1].time # Null /\ calls[1].time.ms = 900
    /\ calls[2].op = "setValue" /\ calls[2].label = NoLabel /\ calls[2].time = Null
    /\ calls[2].key # calls[1].key
    /\ ToNumber(getLastTimePoint(Cur)) = Num(900)
    /\ LastOf(NumericSeriesOf(numericalCounters, calls[2].key)).x = Num(900)

\* C17: a setValue call whose time argument is earlier than or equal to the
\* current TimeAxis tail stores its point with time equal to the current
\* tail, not the supplied time.
C17_EarlierTimeUsesTail ==
    [][ LET c == LastOf(calls')
            tail == ToNumber(getLastTimePoint(Cur))
        IN  (Stores(c) /\ c.time # Null /\ tail.k = "num" /\ c.time.ms <= tail.ms) =>
              StoredTime(c, numericalCounters', counters') = tail
      ]_vars

\* A write at the time that is the TimeAxis tail stored its point at the tail.
C17_Witness ==
    /\ Len(calls) = 2
    /\ calls[1].op = "setValue" /\ calls[1].label # NoLabel
    /\ calls[1].time # Null /\ calls[1].time.ms = 2000
    /\ calls[2].op = "setValue" /\ calls[2].time # Null /\ calls[2].time.ms = 2000
    /\ ~calls[2].err
    /\ StoredTime(calls[2], numericalCounters, counters) = Num(2000)

\* The points of the key's LabeledSeries (none when the key has no such series).
LabeledSeriesOf(cs, k) == IF k \in DOMAIN cs THEN cs[k].pts ELSE <<>>

\* C18: setValue with a numeric value and no label stores the point in the
\* key's NumericSeries and leaves the key's LabeledSeries unchanged; setValue
\* with a label or a non-numeric value stores the point in the key's
\* LabeledSeries and leaves the key's NumericSeries and running extrema
\* unchanged.
C18_Routing ==
    [][ LET c == LastOf(calls')
            k == c.key
        IN  c.op = "setValue" =>
              IF IsNumber(c.val) /\ c.label = NoLabel
              THEN /\ counters' = counters
                   /\ ~Suppressed(c) =>
                         /\ Len(NumericSeriesOf(numericalCounters', k))
                               = Len(NumericSeriesOf(numericalCounters, k)) + 1
                         /\ LastOf(NumericSeriesOf(numericalCounters', k)).y = c.val
              ELSE /\ numericalCounters' = numericalCounters
                   /\ heaps' = heaps
                   /\ getMinValue(Cur', k) = getMinValue(Cur, k)
                   /\ getMaxValue(Cur', k) = getMaxValue(Cur, k)
                   /\ Len(LabeledSeriesOf(counters', k)) > Len(LabeledSeriesOf(counters, k))
                   /\ LastOf(LabeledSeriesOf(counters', k)).y = c.val
                   /\ LastOf(LabeledSeriesOf(counters', k)).label = c.label
      ]_vars

\* One key received a number without label and then a string without
\* label: the first is in its NumericSeries, the second in its LabeledSeries.
C18_Witness ==
    /\ Len(calls) = 2
    /\ calls[1].key = "a" /\ calls[2].key = "a"
    /\ calls[1].label = NoLabel /\ calls[1].val = 2
    /\ calls[2].label = NoLabel /\ calls[2].val = TextValue
    /\ numericalCounters["a"].count = 1
    /\ getMaxValue(Cur, "a") = Num(2)
    /\ LastOf(counters["a"].pts).y = TextValue

\* The call c is a setValue that goes to the LabeledSeries.
LabeledWrite(c) == c.op = "setValue" /\ ~(IsNumber(c.val) /\ c.label = NoLabel) /\ ~c.err

\* The value a series ends with (0 for a series without points).
PrevValue(pts) == IF Len(pts) = 0 THEN 0 ELSE LastOf(pts).y

\* C19: a LabeledSeries write with skipDuplication = false appends exactly
\* two points, first a duplicate carrying the series' previous last value (0
\* for a series without points) and then the new point; a write with
\* skipDuplication = true appends exactly one point, the new one; no earlier
\* point is changed in either case.
C19_SkipDuplication ==
    [][ LET c == LastOf(calls')
            old == LabeledSeriesOf(counters, c.key)
            new == LabeledSeriesOf(counters', c.key)
        IN  LabeledWrite(c) =>
              /\ Len(new) > 0
              /\ LastOf(new).y = c.val /\ LastOf(new).label = c.label
              /\ IF c.skip
                 THEN new = Append(old, LastOf(new))
                 ELSE new = old \o <<[LastOf(new) EXCEPT !.y = PrevValue(old)], LastOf(new)>>
      ]_vars

\* A series holding one point of value 0 received the value 2 with
\* skipDuplication = false: it holds 0, 0, 2.
C19_Witness ==
    /\ Len(calls) = 2
    /\ calls[1].key = "a" /\ calls[2].key = "a"
    /\ calls[1].label # NoLabel /\ calls[1].skip /\ calls[1].val = 0
    /\ calls[2].label # NoLabel /\ ~calls[2].skip /\ calls[2].val = 2
    /\ Len(counters["a"].pts) = 3
    /\ counters["a"].pts[2].y = 0 /\ counters["a"].pts[3].y = 2
    /\ counters["a"].pts[2].x = counters["a"].pts[3].x

\* The kinds of write a key has received, by the log of calls.
IsRateCall(c) == c.op = "incrementRate"
IsNumericCall(c) == c.op = "increment" \/ (c.op = "setValue" /\ IsNumber(c.val) /\ c.label = NoLabel)
IsLabeledCall(c) == c.op = "incrementFrequency" \/ (c.op = "setValue" /\ ~IsNumericCall(c))
Received(k, Kind(_)) == \E i \in 1..Len(calls) : calls[i].key = k /\ Kind(calls[i])

\* The values of a sequence of points.
ValuesOf(pts) == [i \in 1..Len(pts) |-> pts[i].y]

\* C20: getSeries(key) is the RateCounter data when the key has a
\* RateCounter, otherwise the points of the NumericSeries in append order
\* when the key has a NumericSeries, otherwise the points of the
\* LabeledSeries, and the empty sequence when the key has no storage.
C20_SeriesPriority ==
    \A k \in Keys :
        getCounterData(Cur, k).kind = "array" =>
            IF Received(k, IsRateCall)
            THEN Series(k) = getRateCounterData(Cur, k)
            ELSE IF Received(k, IsNumericCall)
            THEN /\ Series(k) = NumericPoints(numericalCounters[k])
                 /\ ValuesOf(Series(k)) = Appended(SelectSeq(CallsOn(calls, k), IsNumericCall))
            ELSE IF Received(k, IsLabeledCall)
            THEN Series(k) = counters[k].pts
            ELSE Series(k) = <<>>

\* A key holds a RateCounter and a NumericSeries of different values, and
\* its series is that of the RateCounter.
C20_Witness ==
    /\ "a" \in DOMAIN rateCounters
    /\ "a" \in DOMAIN numericalCounters
    /\ numericalCounters["a"].count = 1
    /\ numericalCounters["a"].values[1] = 2
    /\ Len(Series("a")) = 1
    /\ Series("a")[1].y = 1

\* The incrementRate calls of a log on key k, and those of them in the
\* second of the last one (the bucket in progress).
RateCallsOn(cs, k) == SelectSeq(CallsOn(cs, k), IsRateCall)
InProgress(cs, k) ==
    SelectSeq(RateCallsOn(cs, k),
              LAMBDA q : SecondOf(q) = SecondOf(LastOf(RateCallsOn(cs, k))))

\* C21: getSeries on a rate-bucketed key queried mid-bucket returns the
\* committed points in commit order followed by exactly one trailing point
\* whose value is the count of the bucket in progress; the trailing point is
\* not stored: a repeated query returns the same sequence and the committed
\* sequence does not grow.
C21_TrailingPoint ==
    [][ LET c == LastOf(calls')
            k == c.key
        IN  (c.op = "getRateCounterData" /\ Len(RateCallsOn(calls, k)) > 0) =>
              /\ Len(c.ret) = Len(Committed(rateCounters, k)) + 1
              /\ SubSeq(c.ret, 1, Len(c.ret) - 1) = Committed(rateCounters, k)
              /\ LastOf(c.ret).y = SumVals(InProgress(calls, k))
              /\ rateCounters' = rateCounters
              /\ timePoints' = timePoints
              /\ (LastOf(calls).op = "getRateCounterData" /\ LastOf(calls).key = k)
                    => c.ret = LastOf(calls).ret
      ]_vars

\* Increments at t = 900 and t = 2000 on one key, then two queries: each
\* returned the committed point of second 0 and one trailing point.
C21_Witness ==
    /\ Len(calls) = 4
    /\ \A i \in 1..4 : calls[i].key = "a"
    /\ calls[1].op = "incrementRate" /\ calls[1].time.ms = 900
    /\ calls[2].op = "incrementRate" /\ calls[2].time.ms = 2000
    /\ calls[3].op = "getRateCounterData" /\ calls[4].op = "getRateCounterData"
    /\ Len(calls[4].ret) = 2
    /\ calls[4].ret[1] = Point(Num(900), calls[1].val, NoLabel)
    /\ calls[4].ret[2].y = calls[2].val
    /\ calls[3].ret = calls[4].ret
    /\ Len(rateCounters["a"].data) = 1

\* The seconds in which key k received an increment, the first and the last
\* of them, and the number of committed points of k that lie in second s.
ActiveSeconds(k) == {SecondOf(RateCallsOn(calls, k)[i]) : i \in 1..Len(RateCallsOn(calls, k))}
FirstSecond(k) == CHOOSE s \in ActiveSeconds(k) : \A u \in ActiveSeconds(k) : s <= u
LastSecond(k) == CHOOSE s \in ActiveSeconds(k) : \A u \in ActiveSeconds(k) : s >= u
CommittedIn(k, s) ==
    Cardinality({i \in 1..Len(Committed(rateCounters, k)) :
                    Committed(rateCounters, k)[i].x.ms \div 1000 = s})

\* C22 (as claimed): for a rate-bucketed key whose increments span the
\* seconds s_first to s_last, the committed sequence holds one point for
\* every second s with s_first <= s < s_last.
C22_PointPerElapsedSecond ==
    \A k \in DOMAIN rateCounters :
        /\ Len(Committed(rateCounters, k)) = LastSecond(k) - FirstSecond(k)
        /\ \A s \in FirstSecond(k)..(LastSecond(k) - 1) : CommittedIn(k, s) = 1

\* C22 (amended): the committed sequence holds one point for every second
\* s, s_first <= s < s_last, in which the key received at least one
\* increment, and no point for a second without increments.
C22_PointPerActiveSecond ==
    \A k \in DOMAIN rateCounters :
        /\ Len(Committed(rateCounters, k)) = Cardinality(ActiveSeconds(k)) - 1
        /\ \A s \in FirstSecond(k)..(LastSecond(k) - 1) :
              CommittedIn(k, s) = IF s \in ActiveSeconds(k) THEN 1 ELSE 0

\* Increments in seconds 0 and 2 and none in second 1: one committed point,
\* that of second 0.
C22_Witness ==
    /\ Len(calls) = 3
    /\ \A i \in 1..3 : calls[i].key = "a"
    /\ <<calls[1].time.ms, calls[2].time.ms, calls[3].time.ms>> = <<100, 900, 2000>>
    /\ rateCounters["a"].data = <<Point(Num(900), calls[1].val + calls[2].val, NoLabel)>>

\* C23: a write addressed to one key leaves every other key's series as it
\* was: for every key k' different from the written key, getSeries(k') is the
\* same sequence of points immediately before and immediately after the
\* write, for every combination of series kinds.
C23_KeyIndependence ==
    [][ LET c == LastOf(calls')
        IN  c.key \in Keys =>
              \A k \in Keys \ {c.key} : getCounterData(Cur', k) = getCounterData(Cur, k)
      ]_vars

\* A key holding a NumericSeries read the same before and after a labelled
\* write, at a later time, to the other key.
C23_Witness ==
    /\ Len(calls) = 2
    /\ calls[1].key = "a" /\ calls[1].op = "setValue" /\ calls[1].label = NoLabel
    /\ calls[1].time # Null /\ calls[1].time.ms = 900
    /\ calls[2].key = "b" /\ calls[2].op = "setValue" /\ calls[2].label # NoLabel
    /\ calls[2].time # Null /\ calls[2].time.ms = 2000
    /\ Series("a") = <<Point(Num(900), calls[1].val, NoLabel)>>
    /\ Len(Series("b")) > 0

\* C24: after any sequence of store operations whose caller-supplied times
\* do not decrease, the TimeAxis is non-decreasing: the store never registers
\* a timestamp earlier than the current tail.
C24_AxisMonotone ==
    \A i \in 1..(Len(timePoints) - 1) :
        NumLess(ToNumber(timePoints[i + 1]), ToNumber(timePoints[i])) = FALSE

\* A counter was reset and the TimeAxis holds its old and its new time in order.
C24_Witness ==
    /\ Len(calls) = 2
    /\ calls[1].key = "a" /\ calls[2].key = "a"
    /\ Len(counters["a"].pts) = 5
    /\ Len(timePoints) = 2
    /\ timePoints[1].ms = 100 /\ timePoints[2].ms = 2000

IsPrefix(a, b) == Len(a) <= Len(b) /\ SubSeq(b, 1, Len(a)) = a

Reads(s, uv, im) ==
    [getCounterData |-> [k \in Keys |-> getCounterData(s, k)],
     getCounterYValues |-> [k \in Keys |-> getCounterYValues(s, k)],
     getMinValue |-> [k \in Keys |-> getMinValue(s, k)],
     getMaxValue |-> [k \in Keys |-> getMaxValue(s, k)],
     getAverageValue |-> [k \in Keys |-> getAverageValue(s, k)],
     getLastTimePoint |-> getLastTimePoint(s),
     getPreLastTimePoint |-> getPreLastTimePoint(s),
     getVar |-> [k \in Keys |-> getVar(uv, k)],
     getInfiniteMapValue |-> [t \in KeyTuples |-> getInfiniteMapValue(im, t)],
     isRateCounter |-> [k \in Keys |-> isRateCounter(s, k)]]

\* C26: after clearAll, following any sequence of operations, every read
\* query (getSeries, getValuesOnly, min, max, average, lastTime,
\* previousTime, getVar, composite-key lookup, the rate-bucketed predicate)
\* answers what it answers on a newly constructed store; no series, variable
\* or TimeAxis entry is left.
C26_ClearResets ==
    (Len(calls) > 0 /\ LastOf(calls).op = "clearAll") =>
        /\ Reads(Cur, userVars, infiniteMaps) = Reads(EmptyStore, EmptyMap, EmptyMap)
        /\ timePoints = <<>>
        /\ DOMAIN counters = {} /\ DOMAIN numericalCounters = {}
        /\ DOMAIN rateCounters = {} /\ DOMAIN heaps = {}
        /\ DOMAIN userVars = {} /\ DOMAIN infiniteMaps = {}

\* A store that had received a numeric write at a time and a second write
\* was cleared.
C26_Witness ==
    /\ Len(calls) = 3
    /\ calls[1].op = "setValue" /\ calls[1].label = NoLabel /\ calls[1].val = 2
    /\ calls[2].op \in {"setVar", "setInfiniteMapValue", "incrementRate", "incrementFrequency"}
    /\ calls[3].op = "clearAll"
    /\ getMaxValue(Cur, calls[1].key) = Undef
    /\ timePoints = <<>>

\* C27: a composite-key write with fewer than two components (the value
\* alone, no key) fails at once with an error and leaves the whole store
\* unchanged.
C27_InvalidKeyAddressing ==
    [][ LET c == LastOf(calls')
        IN  (c.op = "setInfiniteMapValue" /\ Len(c.key) = 0) =>
              /\ c.err
              /\ infiniteMaps' = infiniteMaps
              /\ userVars' = userVars
              /\ UNCHANGED storeVars
      ]_vars

\* A write without a key failed after a write under ("x", "y"), which is
\* still there.
C27_Witness ==
    /\ Len(calls) = 2
    /\ calls[1].key = <<"x", "y">> /\ ~calls[1].err
    /\ calls[2].key = <<>> /\ calls[2].err
    /\ getInfiniteMapValue(infiniteMaps, <<"x", "y">>).node = ValueNode(calls[1].val)

\* Neither tuple is a prefix of the other.
Incomparable(t, u) == ~IsPrefix(t, u) /\ ~IsPrefix(u, t)

\* C28: after a composite-key write of v under a key tuple, a lookup of the
\* tuple returns v, the missing intermediate levels having been created; and
\* every value written before under a tuple that is neither a prefix nor an
\* extension of it is still returned by its own lookup.
C28_WriteThenLookup ==
    [][ LET c == LastOf(calls')
        IN  (c.op = "setInfiniteMapValue" /\ ~c.err) =>
              /\ getInfiniteMapValue(infiniteMaps', c.key)
                    = [err |-> FALSE, has |-> TRUE, node |-> ValueNode(c.val)]
              /\ \A t \in KeyTuples :
                    LET old == getInfiniteMapValue(infiniteMaps, t)
                    IN  (Incomparable(t, c.key) /\ ~old.err /\ old.has
                           /\ old.node.kind = "val")
                          => getInfiniteMapValue(infiniteMaps', t) = old
      ]_vars

\* Writes under ("x", "x"), ("x", "y") and ("y"): each lookup returns the
\* value written.
C28_Witness ==
    /\ Len(calls) = 3
    /\ <<calls[1].key, calls[2].key, calls[3].key>> = << <<"x", "x">>, <<"x", "y">>, <<"y">> >>
    /\ <<calls[1].val, calls[2].val, calls[3].val>> = <<1, 2, 1>>
    /\ getInfiniteMapValue(infiniteMaps, <<"x", "x">>).node = ValueNode(1)
    /\ getInfiniteMapValue(infiniteMaps, <<"x", "y">>).node = ValueNode(2)
    /\ getInfiniteMapValue(infiniteMaps, <<"y">>).node = ValueNode(1)

\* C29: for every key in every reachable state, getCounterYValues(key) is
\* the sequence of the values of getCounterData(key), in the same order and
\* of the same length, whichever storage serves the key.
C29_ValuesMatchSeries ==
    \A k \in Keys :
        LET d == getCounterData(Cur, k)
            v == getCounterYValues(Cur, k)
        IN  ~v.err /\ d.kind = "array" /\ v.vals = ValuesOf(d.pts)

\* incrementFrequencyCounter("a", 1) on a store without time points threw
\* and left a nested Map under "a": getCounterData returns the Map and
\* getCounterYValues throws.
C29_Witness ==
    /\ Len(calls) >= 1
    /\ calls[1].op = "incrementFrequency" /\ calls[1].key = "a" /\ calls[1].err
    /\ getCounterData(Cur, "a").kind = "map"
    /\ getCounterYValues(Cur, "a").err

\* C30: getMinValue, getMaxValue and getAverageValue return undefined for a
\* key that received no numeric write (absent, or with labelled, frequency or
\* rate data only); a key that received one has a typed-array entry whose
\* count is at least 1, so getAverageValue never divides by zero.
C30_StatsUndefinedOrCounted ==
    \A k \in Keys :
        IF Received(k, IsNumericCall)
        THEN /\ k \in DOMAIN numericalCounters
             /\ numericalCounters[k].count >= 1
             /\ getAverageValue(Cur, k).k = "ratio"
             /\ getAverageValue(Cur, k).d >= 1
             /\ getMinValue(Cur, k) # Undef
             /\ getMaxValue(Cur, k) # Undef
        ELSE /\ k \notin DOMAIN numericalCounters
             /\ getMinValue(Cur, k) = Undef
             /\ getMaxValue(Cur, k) = Undef
             /\ getAverageValue(Cur, k) = Undef

\* Key "a" has labelled data only and reads undefined; key "b" has one
\* numeric value and an average over one value.
C30_Witness ==
    /\ Len(calls) = 2
    /\ calls[1].op = "setValue" /\ calls[1].key = "a" /\ calls[1].label # NoLabel
    /\ calls[2].op = "setValue" /\ calls[2].key = "b" /\ calls[2].label = NoLabel
    /\ getAverageValue(Cur, "a") = Undef /\ getMinValue(Cur, "a") = Undef
    /\ getAverageValue(Cur, "b") = Ratio(calls[2].val, 1)

\* The cell of a line under a column is missing or holds no number.
Malformed(line, index) == index > Len(line) \/ line[index].lead = NoLead

\* The number a well-formed cell holds, and 0 for a malformed one.
CellValue(line, index) == IF Malformed(line, index) THEN 0 ELSE line[index].lead

RECURSIVE CellSum(_, _, _)
CellSum(line, columns, n) ==
    IF n = 0 THEN 0 ELSE CellSum(line, columns, n - 1) + CellValue(line, columns[n])

\* The rows fed so far (the first line is the header).
Rows == {j \in 1..Len(lines) : ~lines[j].header}

\* The processor clock before line j was fed.
TimeBefore(j) == IF j = 1 THEN 0 ELSE lines[j - 1].time

\* Row j holds a frame time that is a number above 0.
Accepted(j) ==
    /\ "frameTime" \in DOMAIN csv.columnMap.cols
    /\ CellValue(lines[j].line, csv.columnMap.cols["frameTime"]) > 0

\* The values row j handed to setNewCounterValue under a key.
ValuesSet(j, key) ==
    {lines[j].calls[n].val : n \in {l \in 1..Len(lines[j].calls) :
                                      lines[j].calls[l].op = "setValue"
                                      /\ lines[j].calls[l].key = key}}

C32_NoConsecutiveSameMs ==
    \A n \in 1..(Len(timePoints) - 1) :
        ToNumber(timePoints[n]) # ToNumber(timePoints[n + 1])

\* Two rows with a frame time of 0.4 ms were ingested: the clock stayed at 0
\* and the TimeAxis holds two Date objects of millisecond 0.
C32_Witness ==
    /\ Len(lines) = 3
    /\ lines[1].line = FullHeader
    /\ lines[2].line = <<Cell("2.0", 20), Cell("0.4", 4), Cell("2.0", 20), Cell("1.0", 10), Cell("2.0", 20)>>
    /\ lines[3].line = <<Cell("2.0", 20), Cell("0.4", 4), Cell("2.0", 20), Cell("1.0", 10), Cell("2.0", 20)>>
    /\ csv.time = 0
    /\ Len(timePoints) = 2
    /\ timePoints[1].ms = 0 /\ timePoints[2].ms = 0
    /\ timePoints[1].id # timePoints[2].id

\* The integer nearest to a number of tenths, the upper one of two.
Rounded(tenths) == CHOOSE r \in 0..1001 : 10 * r - 5 <= tenths /\ tenths < 10 * r + 5

\* The frame time a row holds under the header read, 0 when it holds none.
FrameTimeOf(cs, line) ==
    IF "frameTime" \in DOMAIN cs.columnMap.cols
    THEN CellValue(line, cs.columnMap.cols["frameTime"]) ELSE 0

\* The sum of the rounded frame times of the rows of a log that hold a
\* positive one.
RECURSIVE SumRounded(_, _)
SumRounded(cs, log) ==
    IF Len(log) = 0 THEN 0
    ELSE SumRounded(cs, SubSeq(log, 1, Len(log) - 1))
           + (IF ~LastOf(log).header /\ FrameTimeOf(cs, LastOf(log).line) > 0
              THEN Rounded(FrameTimeOf(cs, LastOf(log).line)) ELSE 0)

\* The times of a log of calls never decrease.
TimesNonDecreasing(log) ==
    \A n \in 1..(Len(log) - 1) : log[n].time.ms <= log[n + 1].time.ms

\* C33: a row whose frame time is not a number or is not positive changes
\* neither the processor clock nor the store; every other row advances the
\* clock by round(frameTime) and hands the new clock to the store; so the
\* clock is the sum of the rounded frame times of the accepted rows and the
\* times the store was handed never decrease.
C33_ProcessorClock ==
    [][ (lines' # lines /\ ~csv.isFirstLine) =>
          LET line == LastOf(lines').line
              ft == FrameTimeOf(csv, line)
              made == SubSeq(calls', Len(calls) + 1, Len(calls'))
          IN  /\ IF ft > 0
                 THEN /\ csv'.time = csv.time + Rounded(ft)
                      /\ Len(made) >= 1
                      /\ \A n \in 1..Len(made) :
                             IsDate(made[n].time) /\ made[n].time.ms = csv'.time
                 ELSE /\ csv'.time = csv.time
                      /\ made = <<>>
                      /\ UNCHANGED storeVars
              /\ csv'.time = SumRounded(csv', lines')
              /\ TimesNonDecreasing(calls')
      ]_vars

\* After the header a row of -1.0 ms and a row of 0.5 ms were fed: the first
\* made no call, the second moved the clock to 1 and handed 1 to the store.
C33_Witness ==
    /\ Len(lines) = 3
    /\ lines[1].line = FullHeader
    /\ lines[2].line = <<Cell("2.0", 20), Cell("-1.0", -10), Cell("2.0", 20), Cell("1.0", 10), Cell("2.0", 20)>>
    /\ lines[3].line = <<Cell("2.0", 20), Cell("0.5", 5), Cell("2.0", 20), Cell("1.0", 10), Cell("2.0", 20)>>
    /\ lines[2].calls = <<>> /\ lines[2].time = 0
    /\ csv.time = 1
    /\ Len(calls) >= 1 /\ calls[1].op = "addTimePoint" /\ calls[1].time.ms = 1

\* The sum of the values of a sequence of points.
RECURSIVE SumY(_)
SumY(pts) == IF Len(pts) = 0 THEN 0 ELSE SumY(SubSeq(pts, 1, Len(pts) - 1)) + LastOf(pts).y

\* C34: for every rate-bucketed key in every reachable state, the values of
\* its committed points and the count of its bucket in progress add up to the
\* sum of all deltas passed to incrementRate for the key: no increment is lost
\* or counted twice when a bucket rolls over.
C34_RateConservation ==
    \A k \in Keys :
        IF RateCallsOn(calls, k) = <<>> THEN k \notin DOMAIN rateCounters
        ELSE /\ k \in DOMAIN rateCounters
             /\ SumY(rateCounters[k].data) + rateCounters[k].currentCount
                  = SumVals(RateCallsOn(calls, k))

\* Key "a" was incremented in seconds 0, 1 and 2 by 1, 2 and 2: two points
\* are committed and the third bucket is in progress.
C34_Witness ==
    /\ Len(calls) = 4
    /\ \A n \in 1..4 : calls[n].key = "a"
    /\ <<calls[1].time.ms, calls[2].time.ms, calls[3].time.ms, calls[4].time.ms>>
         = <<900, 1100, 2000, 2100>>
    /\ <<calls[1].val, calls[2].val, calls[3].val, calls[4].val>> = <<1, 2, 1, 1>>
    /\ Len(rateCounters["a"].data) = 2
    /\ SumY(rateCounters["a"].data) = 3
    /\ rateCounters["a"].currentCount = 2

\* C35: incrementFrequency returns the updated value of the counter: the
\* value of the last point of the key's series once delta has been added.
C35_ReturnsUpdatedValue ==
    [][ LET c == LastOf(calls')
        IN  (calls' # calls /\ c.op = "incrementFrequency" /\ ~c.err) =>
              c.ret = LastOf(counters'[c.key].pts).y
      ]_vars

\* incrementFrequencyCounter("a", new Date(100), 1) on a new store left the
\* last point of "a" at 1 and returned 2.
C35_Witness ==
    /\ Len(calls) = 1
    /\ calls[1].op = "incrementFrequency" /\ calls[1].key = "a" /\ ~calls[1].err
    /\ calls[1].val = 1 /\ calls[1].time.ms = 100
    /\ LastOf(counters["a"].pts).y = 1
    /\ calls[1].ret = 2

\* The key of the last call of a log received, in that log, a call of a kind.
ReceivedIn(log, Kind(_)) ==
    \E n \in 1..Len(log) : log[n].key = LastOf(log).key /\ Kind(log[n])

\* C36 (as claimed): after any setValue(key, v, ...) call that is not
\* suppressed by dedupe, the last point of getSeries(key) has value v,
\* whatever kinds of write the key received before.
C36_LastPointIsValue ==
    [][ LET c == LastOf(calls')
            d == getCounterData(Cur', c.key)
        IN  Stores(c) => (d.kind = "array" /\ Len(d.pts) > 0 /\ LastOf(d.pts).y = c.val)
      ]_vars

\* C36 (amended): such a call leaves v in the last point of the storage it
\* writes (the NumericSeries for a number without label, the LabeledSeries
\* otherwise); the last point of getSeries(key) has value v when that storage
\* serves the key: the key never received an incrementRate and, for a write
\* to the LabeledSeries, never received a numeric write.
C36_LastPointWhereServed ==
    [][ LET c == LastOf(calls')
            d == getCounterData(Cur', c.key)
            numeric == IsNumber(c.val) /\ c.label = NoLabel
            served == /\ ~ReceivedIn(calls', IsRateCall)
                      /\ numeric \/ ~ReceivedIn(calls', IsNumericCall)
        IN  Stores(c) =>
              /\ IF numeric
                 THEN LastOf(NumericSeriesOf(numericalCounters', c.key)).y = c.val
                 ELSE LastOf(LabeledSeriesOf(counters', c.key)).y = c.val
              /\ served => (d.kind = "array" /\ Len(d.pts) > 0 /\ LastOf(d.pts).y = c.val)
      ]_vars

\* Key "a" received an incrementRate of 1 and then the number 2 by setValue:
\* its NumericSeries ends with 2 and getSeries("a") ends with the rate
\* bucket's 1.
C36_Witness ==
    /\ Len(calls) = 2
    /\ calls[1].op = "incrementRate" /\ calls[1].key = "a" /\ calls[1].val = 1
    /\ calls[2].op = "setValue" /\ calls[2].key = "a" /\ calls[2].val = 2
    /\ calls[2].label = NoLabel /\ ~calls[2].err
    /\ LastOf(NumericSeriesOf(numericalCounters, "a")).y = 2
    /\ LastOf(Series("a")).y = 1

\* Every write the key received was a setValue of a number with dedupe.
OnlyDedupedWrites(k) ==
    \A n \in 1..Len(calls) :
        calls[n].key = k =>
            (calls[n].op = "setValue" /\ calls[n].label = NoLabel
               /\ IsNumber(calls[n].val) /\ calls[n].dedupe)

\* C37: when every write to a NumericSeries key is made with dedupe = true,
\* the series holds, in every reachable state, no two consecutive points of
\* equal value.
C37_NoConsecutiveEqualValues ==
    \A k \in DOMAIN numericalCounters :
        OnlyDedupedWrites(k) =>
            LET pts == NumericSeriesOf(numericalCounters, k)
            IN  \A n \in 1..(Len(pts) - 1) : pts[n].y # pts[n + 1].y

\* Key "a" received 2, 0 and 0 with dedupe, the third write on a full
\* buffer: the series holds 2, 0.
C37_Witness ==
    /\ Len(calls) = 3
    /\ \A n \in 1..3 : calls[n].key = "a"
    /\ OnlyDedupedWrites("a")
    /\ <<calls[1].val, calls[2].val, calls[3].val>> = <<2, 0, 0>>
    /\ ValuesOf(NumericSeriesOf(numericalCounters, "a")) = <<2, 0>>

\* The calls that are read queries.
IsRead(c) == c.op \in ReadOps \cup {"getVar", "getInfiniteMapValue", "getRateCounterData"}

\* C38: every read query (getCounterData, getCounterDataExtended,
\* getCounterYValues, getMinValue, getMaxValue, getAverageValue,
\* getLastTimePoint, getPreLastTimePoint, getVar, getInfiniteMapValue,
\* isRateCounter) leaves the whole store as it was, also for a key that does
\* not exist: it creates no series, registers no time and stores no trailing
\* or extension point.
C38_ReadsChangeNothing ==
    [][ (calls' # calls /\ IsRead(LastOf(calls'))) =>
          /\ timePoints' = timePoints
          /\ counters' = counters
          /\ numericalCounters' = numericalCounters
          /\ heaps' = heaps
          /\ rateCounters' = rateCounters
          /\ userVars' = userVars
          /\ infiniteMaps' = infiniteMaps
      ]_vars

\* After a labelled write to "a" at 900, getCounterDataExtended("a", 2100)
\* returned two points and getCounterData("b") none: the series of "a" holds
\* one point and "b" has no entry.
C38_Witness ==
    /\ Len(calls) = 3
    /\ calls[1].op = "setValue" /\ calls[1].label # NoLabel
    /\ calls[2].op = "getCounterDataExtended" /\ calls[2].key = "a"
    /\ ~calls[2].err /\ Len(calls[2].ret) = 2
    /\ calls[3].op = "getCounterData" /\ calls[3].key = "b"
    /\ Len(counters["a"].pts) = 1
    /\ "b" \notin DOMAIN counters
    /\ Len(timePoints) = 1

\* C39: with caller-supplied times that do not decrease, the points
\* getSeries(key) returns have non-decreasing times, for every key in every
\* reachable state, the trailing point of a rate-bucketed key and the reset
\* points of a frequency counter included.
C39_SeriesTimesMonotone ==
    \A k \in Keys :
        LET d == getCounterData(Cur, k)
        IN  d.kind = "array" =>
              \A n \in 1..(Len(d.pts) - 1) :
                  ~NumLess(ToNumber(d.pts[n + 1].x), ToNumber(d.pts[n].x))

\* After a time point at 900 (registered by incrementFrequency), key "a"
\* received a numeric write at 2000 and one without a time: its points carry
\* the times 2000 and 900.
C39_Witness ==
    /\ Len(calls) = 3
    /\ \A n \in 1..3 : calls[n].key = "a" /\ ~calls[n].err
    /\ calls[1].op = "incrementFrequency" /\ calls[1].time.ms = 900
    /\ calls[2].op = "increment" /\ IsDate(calls[2].time) /\ calls[2].time.ms = 2000
    /\ calls[3].op = "increment" /\ calls[3].time = Null
    /\ Len(Series("a")) = 2
    /\ ToNumber(Series("a")[1].x) = Num(2000)
    /\ ToNumber(Series("a")[2].x) = Num(900)

\* The result recorded for a file says that it failed.
Failed(result) == "error" \in DOMAIN result

\* C40: in batch mode every listed file is attempted exactly once, in the
\* order of the listing; a failure while processing a file is recorded for
\* that file and keeps no later file from being processed; the batch always
\* reaches its end.
C40_BatchCompletes ==
    /\ [](batch.pc # "idle" =>
            /\ batch.attempts = SubSeq(batch.files, 1, batch.i)
            /\ Len(batch.results) = batch.i
            /\ \A j \in 1..batch.i : batch.results[j].file = batch.files[j]
            /\ batch.pc = "done" => batch.attempts = batch.files)
    /\ [][\A j \in 1..Len(batch.results) : batch'.results[j] = batch.results[j]]_vars
    /\ (batch.pc = "loop") ~> (batch.pc = "done")

\* Of three files the first failed: all three were attempted in order, the
\* failure is recorded for the first, and the batch ended.
C40_Witness ==
    /\ batch.pc = "done"
    /\ batch.files = <<"a.csv", "b.csv", "a.csv">>
    /\ batch.attempts = batch.files
    /\ Failed(batch.results[1]) /\ batch.results[1].file = "a.csv"
    /\ ~Failed(batch.results[2]) /\ ~Failed(batch.results[3])

====
